---- MODULE Spec2Model ----
(***************************************************************************)
(* A model of the FFI extension of Ren-C (metaeducation/rebol-ffi): the    *)
(* STRUCT! schema builder and codec of t-struct.c / stub-struct.h, and the *)
(* routine dispatcher of t-routine.c.                                      *)
(*                                                                         *)
(* Integers of the host (REBI64) are kept at their width: a 64-bit value   *)
(* is a tuple of 8 bytes, least significant first (two's complement), and  *)
(* memory is a sequence of bytes.  The platform modelled is little-endian  *)
(* with 8-byte pointers.                                                   *)
(***************************************************************************)
EXTENDS Integers, Sequences, FiniteSets, TLC

VARIABLES
    \* Make_Struct in progress (t-struct.c)
    ms_pc,        \* "off" | "start" | "fields" | "done" | "failed" | "crashed"
    ms_inner,     \* <<>> or <<instance>>: a STRUCT! value usable as a field type
    ms_st,        \* [err, fields, offset, data]: the fields pushed so far,
                  \* the running `offset`, the bytes of data_bin
    ms_made,      \* <<>> or <<instance>>: what Make_Struct returned
    ms_fftype     \* <<>> or <<[allocated, elements, sentinel]>>: the schema's
                  \* ffi_type `elements` array as Prepare_Field_For_Ffi left it

layoutVars == <<ms_pc, ms_inner, ms_st, ms_made, ms_fftype>>

VARIABLES
    \* writing and reading the fields of one owned instance (t-struct.c)
    cd_type,      \* the integer type of its fields `f` and `g`
    cd_stu,       \* the instance
    cd_written,   \* per element of f, g: <<>> or <<i>>, the last integer stored
    cd_last       \* the last operation: [op, field, n, val, err, out]

codecVars == <<cd_type, cd_stu, cd_written, cd_last>>

VARIABLES
    \* comparing two field lists, and two instances (t-struct.c)
    sf_a, sf_b,   \* the two Make_Struct states whose field lists are compared
    sf_res,       \* <<>> or <<[ab, ba, definite]>>: Same_Fields both ways
    eq_x, eq_y,   \* the two instances given to EQUAL_Q
    eq_res        \* <<>> or <<outcome>> of the last EQUAL_Q

sameVars == <<sf_a, sf_b, sf_res>>
equalVars == <<eq_x, eq_y, eq_res>>

VARIABLES
    \* an instance on external memory, used and destroyed
    lf_build,     \* [checked, module]: assertions compiled in or not, and
                  \* which file's DESTROY-STRUCT-STORAGE is linked
    lf_stu,       \* the instance; its handle (len) is shared with its views
    lf_frees,     \* the addresses the free function was called with
    lf_last       \* the last operation: [op, via, typed, dead, err, touched,
                  \* out]; typed: its arguments had the types it takes

lifeVars == <<lf_build, lf_stu, lf_frees, lf_last>>

VARIABLES
    \* one routine and its calls (Routine_Dispatcher, t-routine.c)
    rc_routine,   \* [origin, ret, args, variadic, checked]: the routine's
                  \* details, and whether assertions are compiled in
    rc_lib_open,  \* whether the library the routine came from is open
    rc_pc,        \* where the dispatcher is: "idle", "count", "store",
                  \* "gather", "cif", "pointers", "call", "free", "done",
                  \* "failed"
    rc_in,        \* [args, feed, taken]: the frame's fixed arguments, what
                  \* the VARARGS! still holds, and what was taken from it
    rc_stack,     \* the data stack above `base`
    rc_store,     \* <<>> or <<bytes>>: the backing store
    rc_offsets,   \* <<>> or <<offsets>>: arg_offsets
    rc_encoded,   \* the arguments encoded so far: [arg, block, type, offset]
    rc_native,    \* what the native function was called with: <<>> or <<args>>
    rc_err,       \* <<>> or <<error>>: how the call failed
    rc_rcif,      \* IDX_ROUTINE_CIF: <<>> (unreadable) or <<cif>>
    rc_rfftypes,  \* IDX_ROUTINE_ARG_FFTYPES: "unreadable", "space", "handle"
    rc_ret,       \* ret_offset: <<>> or <<offset>>
    rc_cif,       \* the call's `cif`: <<>> or <<cif>>
    rc_fftypes,   \* the call's `args_fftypes`: <<>> or <<types>>
    rc_ptrs,      \* <<>>, or once the offsets are pointers <<[ret, args]>>
    rc_freed      \* what the call has freed, in the order of the frees

\* the slots of the routine's details that hold its call interface
rc_slots == <<rc_rcif, rc_rfftypes>>

\* what a call allocates besides the store and arg_offsets
rc_scratch == <<rc_ret, rc_cif, rc_fftypes, rc_ptrs, rc_freed>>

callVars == <<rc_routine, rc_lib_open, rc_pc, rc_in, rc_stack, rc_store,
              rc_offsets, rc_encoded, rc_native, rc_err, rc_slots, rc_scratch>>

VARIABLES
    \* one callback and the calls native code makes of it
    \* (callback_dispatcher, t-routine.c)
    cb_routine,  \* [args, ret, checked]: the schemas of the callback
    cb_pc,       \* "idle", "running", "finished", "returned", "unwound",
                 \* "aborted", "crashed"
    cb_args,     \* the bytes `args` points to, one sequence per argument
    cb_code,     \* the values of the array that is evaluated
    cb_run,      \* what the action did: "none", "value", "throw", "abrupt",
                 \* "raised"
    cb_result,   \* <<>> or <<value>>: `result`
    cb_ret       \* <<>> or <<[mem, null_store]>>: the caller's memory at `ret`
                 \* after the write, and whether the null `store` was used

callbackVars == <<cb_routine, cb_pc, cb_args, cb_code, cb_run, cb_result,
                  cb_ret>>

VARIABLES
    \* the natives that make routines (MAKE-ROUTINE, MAKE-ROUTINE-RAW,
    \* WRAP-CALLBACK and Trap_Alloc_Ffi_Action_For_Spec, t-routine.c)
    al_checked,  \* whether assertions are compiled in
    al_native,   \* the native last run, "none" at first
    al_spec,     \* the ffi-spec it was given: a sequence of [kind, type]
    al_out       \* [err, routine, closure]: the error or <<>>, <<>> or the
                 \* <<routine>> it gave, whether a closure was prepared

allocVars == <<al_checked, al_native, al_spec, al_out>>

VARIABLES
    \* one value encoded for one schema, as an argument and as a field
    en_target,    \* [type, inner, checked]: the schema's type word, or
                  \* "struct!" and <<the STRUCT! value it was made of>>
    en_val,       \* the value
    en_arg,       \* <<>> or <<[err, store, offset]>>: Trap_Cell_To_Ffi's result
    en_field,     \* <<>> or <<[err, mem]>>: Set_Scalar_In_Struct's result
    en_back       \* [arg, field]: <<>> or <<what was decoded from each>>

encodeVars == <<en_target, en_val, en_arg, en_field, en_back>>

vars == <<layoutVars, codecVars, sameVars, equalVars, lifeVars, callVars,
          callbackVars,
          allocVars,
          encodeVars>>

\* what the steps of each part leave alone
notLayout == <<codecVars, sameVars, equalVars, lifeVars, callVars,
    callbackVars,
    allocVars,
    encodeVars>>
notCodec == <<layoutVars, sameVars, equalVars, lifeVars, callVars,
    callbackVars,
    allocVars,
    encodeVars>>
notSame == <<layoutVars, codecVars, equalVars, lifeVars, callVars,
    callbackVars,
    allocVars,
    encodeVars>>
notEqual == <<layoutVars, codecVars, sameVars, lifeVars, callVars,
    callbackVars,
    allocVars,
    encodeVars>>
notLife == <<layoutVars, codecVars, sameVars, equalVars, callVars,
    callbackVars,
    allocVars,
    encodeVars>>
notCall == <<layoutVars, codecVars, sameVars, equalVars, lifeVars,
    callbackVars,
    allocVars,
    encodeVars>>
notCallback == <<layoutVars, codecVars, sameVars, equalVars, lifeVars, callVars,
    allocVars,
    encodeVars>>
notAlloc == <<layoutVars, codecVars, sameVars, equalVars, lifeVars, callVars, callbackVars,
    encodeVars>>
notEncode == <<layoutVars, codecVars, sameVars, equalVars, lifeVars, callVars, callbackVars, allocVars>>

-----------------------------------------------------------------------------
(* Bounds of the model                                                     *)

MaxFields == 3     \* fields declared in one MAKE STRUCT!
MaxDim == 2        \* largest array dimension declared
MaxSame == 2       \* fields in each of two compared field lists
MaxStream == 4     \* entries a VARARGS! yields in one call
MaxSpec == 3       \* items of one ffi-spec

-----------------------------------------------------------------------------
(* Bytes and 64-bit integers                                               *)

Byte == 0..255

SizeofPointer == 8

RECURSIVE Zeros(_)
Zeros(n) == IF n <= 0 THEN <<>> ELSE <<0>> \o Zeros(n - 1)

RECURSIVE Fill(_, _)
Fill(n, b) == IF n <= 0 THEN <<>> ELSE <<b>> \o Fill(n - 1, b)

\* A small natural number as a REBI64
I64(n) == <<n % 256, (n \div 256) % 256, (n \div 65536) % 256,
            (n \div 16777216) % 256, 0, 0, 0, 0>>

\* the two's complement negation helpers: bitwise complement, increment
Complement(v) == [k \in 1..Len(v) |-> 255 - v[k]]

RECURSIVE IncFrom(_, _)
IncFrom(v, k) ==
    IF k > Len(v) THEN v
    ELSE IF v[k] = 255 THEN IncFrom([v EXCEPT ![k] = 0], k + 1)
    ELSE [v EXCEPT ![k] = v[k] + 1]

RECURSIVE DecFrom(_, _)
DecFrom(v, k) ==
    IF k > Len(v) THEN v
    ELSE IF v[k] = 0 THEN DecFrom([v EXCEPT ![k] = 255], k + 1)
    ELSE [v EXCEPT ![k] = v[k] - 1]

Succ64(v) == IncFrom(v, 1)
Pred64(v) == DecFrom(v, 1)
Neg64(v) == Succ64(Complement(v))

\* unsigned comparison of the bytes k..1, most significant first
RECURSIVE ULessFrom(_, _, _)
ULessFrom(a, b, k) ==
    IF k = 0 THEN FALSE
    ELSE IF a[k] # b[k] THEN a[k] < b[k]
    ELSE ULessFrom(a, b, k - 1)

IsNeg64(v) == v[8] >= 128

\* C's `a < b` and `a > b` on int64_t
Less64(a, b) ==
    IF IsNeg64(a) # IsNeg64(b) THEN IsNeg64(a) ELSE ULessFrom(a, b, 8)

Greater64(a, b) == Less64(b, a)

\* C's cast(intN_t / uintN_t, i) followed by a store: the low w bytes
LowBytes(v, w) == SubSeq(v, 1, w)

\* reading a uintN_t / intN_t and widening it to REBI64 (Init_Integer)
ZeroExtend(bs) == bs \o Zeros(8 - Len(bs))
SignExtend(bs) ==
    bs \o Fill(8 - Len(bs), IF bs[Len(bs)] >= 128 THEN 255 ELSE 0)

\* memory: replace the bytes at 0-based offset `at`
Poke_Bytes(mem, at, bs) ==
    [k \in 1..Len(mem) |->
        IF k > at /\ k <= at + Len(bs) THEN bs[k - at] ELSE mem[k]]

Peek_Bytes(mem, at, n) == SubSeq(mem, at + 1, at + n)

None == <<>>
Some(x) == <<x>>

-----------------------------------------------------------------------------
(* The type catalog                                                        *)

IntTags == {"uint8", "int8", "uint16", "int16", "uint32", "int32",
            "uint64", "int64"}

PrimTags == IntTags \cup {"float", "double", "pointer", "rebval"}

\* the IDX_FIELD_WIDE that Parse_Field_Type records for a type keyword
PrimWidth(t) ==
    CASE t \in {"uint8", "int8"} -> 1
      [] t \in {"uint16", "int16"} -> 2
      [] t \in {"uint32", "int32", "float"} -> 4
      [] t \in {"uint64", "int64", "double"} -> 8
      [] t \in {"pointer", "rebval"} -> SizeofPointer

-----------------------------------------------------------------------------
(* Field accessors (stub-struct.h)                                         *)

Field_Is_Struct(f) == f.is_struct
Field_Is_C_Array(f) == f.is_array
Field_Dimension(f) == f.dimension
Field_Offset(f) == f.offset
Field_Width(f) == f.wide

Field_Total_Size(f) ==
    IF Field_Is_C_Array(f) THEN Field_Width(f) * Field_Dimension(f)
    ELSE Field_Width(f)

\* `x > VAL_STRUCT_LIMIT`, VAL_STRUCT_LIMIT being UINT32_MAX = 65536 * 65536 - 1
Exceeds_Struct_Limit(x) == x \div 65536 >= 65536

-----------------------------------------------------------------------------
(* Struct instances (stub-struct.h)                                        *)
(*                                                                         *)
(* An instance is [fields_id, fields, wide, is_blob, bytes, len, offset]:  *)
(* the schema (identity of the field array, the field list, the width),    *)
(* the storage (a BLOB! holding `bytes`, or a HANDLE! whose `len` is 0     *)
(* once destroyed and whose memory is `bytes`), and STRUCT_OFFSET.         *)

Struct_Storage_Len(stu) ==
    IF stu.is_blob THEN Len(stu.bytes) ELSE stu.len

Struct_Total_Size(stu) == stu.wide

\* Cell_Struct's test: external storage whose handle length is 0
Cell_Struct_Inaccessible(stu) == ~stu.is_blob /\ stu.len = 0

Cell_Struct_Data_Size(stu) == Struct_Storage_Len(stu)

A_Field(name, type, sub, dim, offset, wide) ==
    [name |-> name, is_struct |-> sub # None, type |-> type, sub |-> sub,
     is_array |-> dim # None,
     dimension |-> IF dim = None THEN 0 ELSE dim[1],
     offset |-> offset, wide |-> wide]

-----------------------------------------------------------------------------
(* Make_Struct (t-struct.c)                                                *)
(*                                                                         *)
(* A field declaration is [name, kw, dim, inner]: the field's word, the    *)
(* first item of its type block (a type keyword, or "struct-value" for a   *)
(* STRUCT! value), the optional dimension and the STRUCT! value if any.    *)
(* Declarations here are plain words (no initial values).                  *)

\* what Parse_Field_Type fills in: width, type, dimension; or a panic
Parse_Field_Type(decl, offset) ==
    IF decl.kw \in PrimTags
      THEN [err |-> None,
            field |-> Some(A_Field(decl.name, decl.kw, None, decl.dim,
                                   offset, PrimWidth(decl.kw)))]
    ELSE IF decl.kw = "struct-value"
      THEN LET inner == decl.inner[1] IN
           IF Cell_Struct_Inaccessible(inner)
             THEN [err |-> Some("bad-memory"), field |-> None]
             ELSE [err |-> None,
                   field |-> Some(A_Field(decl.name, "struct!",
                       Some([fields_id |-> inner.fields_id,
                             fields |-> inner.fields]),
                       decl.dim, offset, Cell_Struct_Data_Size(inner)))]
    ELSE [err |-> Some("invalid-word"), field |-> None]

\* the step of a field whose dimension is left out of account
Scalar_Step(f) == Field_Width(f)

\* `step`: Field_Width * dimension, dimension 1 for a scalar
Field_Step(f) ==
    Field_Width(f) * (IF Field_Is_C_Array(f) THEN Field_Dimension(f) ELSE 1)

RECURSIVE Repeat_Bytes(_, _)
Repeat_Bytes(bs, n) == IF n <= 0 THEN <<>> ELSE bs \o Repeat_Bytes(bs, n - 1)

\* the bytes a field without initial value gets: copies of the inner
\* struct's storage head for a struct field, zeros otherwise
Field_Initial_Bytes(f, decl) ==
    IF Field_Is_Struct(f)
      THEN Repeat_Bytes(Peek_Bytes(decl.inner[1].bytes, 0, Field_Width(f)),
                        IF Field_Is_C_Array(f) THEN Field_Dimension(f) ELSE 1)
      ELSE Zeros(Field_Total_Size(f))

\* one pass of process_next_field on the state [err, fields, offset, data]
Process_Next_Field(st, decl) ==
    LET parsed == Parse_Field_Type(decl, st.offset) IN
    IF parsed.err # None THEN [st EXCEPT !.err = parsed.err]
    ELSE LET f == parsed.field[1]
             step == Field_Step(f) IN
         IF Exceeds_Struct_Limit(step) \/ Exceeds_Struct_Limit(st.offset + step)
           THEN [st EXCEPT !.err = Some("size-limit")]
           ELSE [err |-> None,
                 fields |-> Append(st.fields, f),
                 offset |-> st.offset + step,
                 data |-> st.data \o Field_Initial_Bytes(f, decl)]

\* pop_fields_from_stack and finalize_struct: schema.wide is the final
\* offset, the storage is data_bin, STRUCT_OFFSET is 0 (Init_Struct)
Finalize_Struct(st, id) ==
    [fields_id |-> id, fields |-> st.fields, wide |-> st.offset,
     is_blob |-> TRUE, bytes |-> st.data, len |-> 0, offset |-> 0]

Make_Struct_Start == [err |-> None, fields |-> <<>>, offset |-> 0, data |-> <<>>]

RECURSIVE Process_Fields(_, _)
Process_Fields(st, decls) ==
    IF decls = <<>> \/ st.err # None THEN st
    ELSE Process_Fields(Process_Next_Field(st, Head(decls)), Tail(decls))

\* Make_Struct on a whole (non-empty, well-formed) spec block
Make_Struct(decls, id) ==
    Finalize_Struct(Process_Fields(Make_Struct_Start, decls), id)

\* Get_Scalar_In_Struct on a struct field, up to the call of Init_Struct: a
\* new instance on the same storage, whose schema is the field and whose
\* offset is the element's
Sub_Struct(stu, field, n) ==
    [fields_id |-> field.sub[1].fields_id, fields |-> field.sub[1].fields,
     wide |-> Field_Width(field),
     is_blob |-> stu.is_blob, bytes |-> stu.bytes, len |-> stu.len,
     offset |-> stu.offset + Field_Offset(field) + n * Field_Width(field)]

\* Init_Struct: the instance as the STRUCT! cell made from it holds it; the
\* offset is set to 0 there
Init_Struct(stu) == [stu EXCEPT !.offset = 0]

\* the STRUCT! picked out of element n of a struct field
Picked_Struct(stu, field, n) == Init_Struct(Sub_Struct(stu, field, n))

A_Decl(name, kw, dim, inner) ==
    [name |-> name, kw |-> kw, dim |-> dim, inner |-> inner]

-----------------------------------------------------------------------------
(* Prepare_Field_For_Ffi (t-struct.c)                                      *)
(*                                                                         *)
(* An ffi_type is the name of a primitive descriptor ("uint8", ...) or the *)
(* record [type |-> "STRUCT", fields_id |-> id] of a struct's own          *)
(* descriptor.  The `elements` array is [allocated, elements, sentinel]:   *)
(* the number of slots malloc'ed, the entries the loop stored (elements[i] *)
(* is C's elements[i - 1]) and the C index the null pointer was stored at. *)

\* a struct field counts the scalars of its subfields (its own dimension is
\* not consulted), any other field its dimension, or 1
RECURSIVE Total_Struct_Dimensionality(_)
Total_Struct_Dimensionality(fields) ==
    IF fields = <<>> THEN 0
    ELSE LET field == Head(fields) IN
         (IF Field_Is_Struct(field)
            THEN Total_Struct_Dimensionality(field.sub[1].fields)
          ELSE IF Field_Is_C_Array(field) THEN Field_Dimension(field)
          ELSE 1)
         + Total_Struct_Dimensionality(Tail(fields))

\* IDX_FIELD_FFTYPE of a field: Parse_Field_Type stored the primitive's
\* descriptor, or borrowed the descriptor of the STRUCT! value's schema
Field_Ffi_Type(field) ==
    IF Field_Is_Struct(field)
      THEN [type |-> "STRUCT", fields_id |-> field.sub[1].fields_id]
      ELSE [type |-> field.type, fields_id |-> 0]

Repeat_Ffi_Type(fftype, dimension) == [n \in 1..dimension |-> fftype]

\* the loop over the schema's own field list: `dimension` entries per field
RECURSIVE Ffi_Elements(_)
Ffi_Elements(fields) ==
    IF fields = <<>> THEN <<>>
    ELSE LET field == Head(fields)
             dimension == IF Field_Is_C_Array(field)
                            THEN Field_Dimension(field) ELSE 1
         IN Repeat_Ffi_Type(Field_Ffi_Type(field), dimension)
            \o Ffi_Elements(Tail(fields))

\* the struct branch, on the schema's field list
Prepare_Field_For_Ffi(fieldlist) ==
    LET dimensionality == Total_Struct_Dimensionality(fieldlist)
        elements == Ffi_Elements(fieldlist)
    IN [allocated |-> dimensionality + 1,
        elements |-> elements,
        sentinel |-> Len(elements)]

\* the stores went past the end of the malloc'ed array
Elements_Overrun(fftype) == fftype.sentinel >= fftype.allocated

-----------------------------------------------------------------------------
(* Same_Fields (t-struct.c)                                                *)
(*                                                                         *)
(* The result is the set of outcomes the comparison can have: "true",      *)
(* "false", or "abort" (an assertion of a checked build).  Field_Type_Id   *)
(* applied to a struct field asserts in a checked build and otherwise      *)
(* reads the BLOCK! cell as if it were a WORD!, so that step can go any    *)
(* way.                                                                    *)

\* sequencing of two steps of the loop body: the second runs if the first
\* did not return
Then_Check(s1, s2) == (s1 \ {"same"}) \cup (IF "same" \in s1 THEN s2 ELSE {})

\* what is read of a struct field depends on its BLOCK!'s array only
Same_Type_Id(a, b) ==
    IF Field_Is_Struct(a) /\ Field_Is_Struct(b)
         /\ a.sub[1].fields_id = b.sub[1].fields_id THEN {"same", "abort"}
    ELSE IF Field_Is_Struct(a) \/ Field_Is_Struct(b)
      THEN {"same", "false", "abort"}
    ELSE IF a.type # b.type THEN {"false"} ELSE {"same"}

Same_Dimension(a, b) ==
    IF Field_Is_C_Array(a)
      THEN IF ~Field_Is_C_Array(b) THEN {"false"}
           ELSE IF Field_Dimension(a) # Field_Dimension(b) THEN {"false"}
           ELSE {"same"}
      ELSE {"same"}

Same_Offset(a, b) ==
    IF Field_Offset(a) # Field_Offset(b) THEN {"false"} ELSE {"same"}

\* assert(Field_Width(a) == Field_Width(b))
Same_Width_Asserted(a, b) ==
    IF Field_Width(a) # Field_Width(b) THEN {"same", "abort"} ELSE {"same"}

RECURSIVE Same_Fields_From(_, _, _)
RECURSIVE Same_Field(_, _)

Same_Field(a, b) ==
    Then_Check(
        IF Field_Is_Struct(a)
          THEN IF ~Field_Is_Struct(b) THEN {"false"}
               ELSE LET sub == Same_Fields_From(a.sub[1].fields,
                                                b.sub[1].fields, 1)
                    IN (sub \ {"true"}) \cup
                       (IF "true" \in sub THEN {"same"} ELSE {})
          ELSE {"same"},
        Then_Check(Same_Type_Id(a, b),
        Then_Check(Same_Dimension(a, b),
        Then_Check(Same_Offset(a, b), Same_Width_Asserted(a, b)))))

Same_Fields_From(a, b, k) ==
    IF k > Len(a) THEN {"true"}
    ELSE Then_Check(Same_Field(a[k], b[k]), Same_Fields_From(a, b, k + 1))

Same_Fields(a_fieldlist, b_fieldlist) ==
    IF Len(a_fieldlist) # Len(b_fieldlist) THEN {"false"}
    ELSE Same_Fields_From(a_fieldlist, b_fieldlist, 1)

-----------------------------------------------------------------------------
(* Set_Scalar_In_Struct_core and Get_Scalar_In_Struct (t-struct.c)         *)
(*                                                                         *)
(* A value is [kind, i, stu, items]: an INTEGER! carries the REBI64 `i`, a *)
(* STRUCT! the instance <<stu>>, a BLOB! its bytes and a BLOCK! (of        *)
(* INTEGER!s) their REBI64s in `items`.                                    *)

A_Value(kind, i, stu, items) ==
    [kind |-> kind, i |-> i, stu |-> stu, items |-> items]

An_Integer(i) == A_Value("integer", i, None, <<>>)
A_Struct_Value(stu) == A_Value("struct", I64(0), Some(stu), <<>>)
A_Text == A_Value("text", I64(0), None, <<>>)
A_Blob(bytes) == A_Value("blob", I64(0), None, bytes)
A_Block(ints) == A_Value("block", I64(0), None, ints)

\* an ACTION!: `i` is the address of the C function its details hold (if
\* any), `items` says what made it: MAKE-ROUTINE ("library"),
\* MAKE-ROUTINE-RAW ("address"), WRAP-CALLBACK ("callback") or the
\* interpreter ("function")
An_Action(made, address) == A_Value("action", I64(address), None, <<made>>)

Inner_Byte == Make_Struct(<<A_Decl("x", "uint8", None, None)>>, 1)

Inner_Pair ==
    Make_Struct(<<A_Decl("x", "int16", Some(2), None),
                  A_Decl("y", "uint8", None, None)>>, 2)

Inner_Seven == [Inner_Byte EXCEPT !.bytes = <<7>>]

\* as wide as Inner_Pair, with other fields
Twin_Pair ==
    [Make_Struct(<<A_Decl("b", "uint8", Some(5), None)>>, 5)
        EXCEPT !.bytes = <<9, 9, 9, 9, 9>>]

Pair_Filled == [Inner_Pair EXCEPT !.bytes = <<1, 2, 3, 4, 5>>]

\* the cells values are passed in: cell k is at 4096 + (k - 1) * 32
Frame_Cells ==
    <<An_Integer(I64(5)), A_Text,
      A_Struct_Value(Inner_Seven), A_Struct_Value(Pair_Filled),
      A_Struct_Value(Twin_Pair),
      An_Action("callback", 64), An_Action("library", 72),
      An_Action("address", 80), An_Action("function", 0)>>

\* `val` as a pointer: the address of the cell holding it
Cell_Pointer(val) ==
    I64(4096
        + ((CHOOSE k \in 1..Len(Frame_Cells) : Frame_Cells[k] = val) - 1)
          * 32)

\* the cell a pointer made by Cell_Pointer points to
Cell_At(ptr) ==
    Frame_Cells[CHOOSE k \in 1..Len(Frame_Cells) :
                    I64(4096 + (k - 1) * 32) = ptr]

\* a store made without any range test
Unchecked_Store(type, i) == FALSE

\* the `if (...) panic (Error_Overflow_Raw())` tests, per type
Integer_Overflows(type, i) ==
    CASE type = "int8" ->
            Greater64(i, <<127, 0, 0, 0, 0, 0, 0, 0>>)
            \/ Less64(i, <<128, 255, 255, 255, 255, 255, 255, 255>>)
      [] type = "uint8" ->
            Greater64(i, <<255, 0, 0, 0, 0, 0, 0, 0>>) \/ Less64(i, I64(0))
      [] type = "int16" ->
            Greater64(i, <<255, 127, 0, 0, 0, 0, 0, 0>>)
            \/ Less64(i, <<0, 128, 255, 255, 255, 255, 255, 255>>)
      [] type = "uint16" ->
            Greater64(i, <<255, 255, 0, 0, 0, 0, 0, 0>>) \/ Less64(i, I64(0))
      [] type = "int32" ->
            Greater64(i, <<255, 255, 255, 127, 0, 0, 0, 0>>)
            \/ Less64(i, <<0, 0, 0, 128, 255, 255, 255, 255>>)
      [] type = "uint32" ->
            Greater64(i, <<255, 255, 255, 255, 0, 0, 0, 0>>)
            \/ Less64(i, I64(0))
      [] type = "int64" -> FALSE      \* stored without a test
      [] type = "uint64" -> Less64(i, I64(0))
      [] type = "pointer" -> FALSE    \* sizeof(void*) is not 4

\* the result is [err, mem]: the error raised if any, and the memory after
Set_Scalar_In_Struct_core(data_head, offset, field, n, val) ==
    LET at == offset + Field_Offset(field) + n * Field_Width(field) IN
    IF Field_Is_Struct(field)
      THEN IF val.kind # "struct"
             THEN {[err |-> Some("invalid-type"), mem |-> data_head]}
           ELSE IF Cell_Struct_Inaccessible(val.stu[1])
             THEN {[err |-> Some("bad-memory"), mem |-> data_head]}
           ELSE IF Field_Width(field) # Struct_Total_Size(val.stu[1])
             THEN {[err |-> Some("bad-value"), mem |-> data_head]}
           ELSE { IF o = "true"
                    THEN [err |-> None,
                          mem |-> Poke_Bytes(data_head, at,
                                     Peek_Bytes(val.stu[1].bytes,
                                                val.stu[1].offset,
                                                Field_Width(field)))]
                  ELSE IF o = "false"
                    THEN [err |-> Some("bad-value"), mem |-> data_head]
                  ELSE [err |-> Some("abort"), mem |-> data_head]
                  : o \in Same_Fields(field.sub[1].fields,
                                      val.stu[1].fields) }
    ELSE IF field.type = "rebval"
      THEN {[err |-> None,
             mem |-> Poke_Bytes(data_head, at, Cell_Pointer(val))]}
    ELSE IF val.kind # "integer"
      THEN {[err |-> Some("invalid-type"), mem |-> data_head]}
    ELSE IF Integer_Overflows(field.type, val.i)
      THEN {[err |-> Some("overflow"), mem |-> data_head]}
    ELSE {[err |-> None,
           mem |-> Poke_Bytes(data_head, at,
                              LowBytes(val.i, Field_Width(field)))]}

Set_Scalar_In_Struct(stu, field, n, val) ==
    Set_Scalar_In_Struct_core(stu.bytes, stu.offset, field, n, val)

\* the integer Get_Scalar_In_Struct makes of the bytes at p
Get_Scalar_Integer(type, mem, p) ==
    CASE type = "uint8" -> ZeroExtend(Peek_Bytes(mem, p, 1))
      [] type = "int8" -> SignExtend(Peek_Bytes(mem, p, 1))
      [] type = "uint16" -> ZeroExtend(Peek_Bytes(mem, p, 2))
      [] type = "int16" -> SignExtend(Peek_Bytes(mem, p, 1))
      [] type = "uint32" -> ZeroExtend(Peek_Bytes(mem, p, 4))
      [] type = "int32" -> SignExtend(Peek_Bytes(mem, p, 4))
      [] type = "uint64" -> Peek_Bytes(mem, p, 8)
      [] type = "int64" -> Peek_Bytes(mem, p, 8)
      [] type = "pointer" -> Peek_Bytes(mem, p, SizeofPointer)

\* Copy_Cell from the field's own address: the cell whose first bytes are
\* the field's bytes (the pointer's bits, not the cell it points to)
Cell_Of_Bytes(bytes) == A_Value("cell-bits", bytes, None, <<>>)

Get_Scalar_In_Struct(stu, field, n) ==
    LET offset == stu.offset + Field_Offset(field) + n * Field_Width(field) IN
    IF Field_Is_Struct(field)
      THEN A_Struct_Value(Picked_Struct(stu, field, n))
    ELSE IF field.type = "rebval"
      THEN Cell_Of_Bytes(Peek_Bytes(stu.bytes, offset, SizeofPointer))
    ELSE An_Integer(Get_Scalar_Integer(field.type, stu.bytes, offset))

-----------------------------------------------------------------------------
(* Building schemas field by field                                         *)

Outer_Of_Byte ==
    Make_Struct(<<A_Decl("p", "uint8", None, None),
                  A_Decl("s", "struct-value", None, Some(Inner_Byte))>>, 3)

\* the STRUCT! picked out of field `s` of Outer_Of_Byte
Inner_View == Picked_Struct(Outer_Of_Byte, Outer_Of_Byte.fields[2], 0)

LayoutInners == {None, Some(Inner_Byte), Some(Inner_Pair), Some(Inner_View)}

LayoutKeywords == {"uint8", "int32", "pointer", "bogus"}

LayoutNames == {"a"}

Dimensions == {None} \cup {Some(d) : d \in 0..MaxDim}

-----------------------------------------------------------------------------
(* Writing and reading one instance                                        *)

CodecTypes == IntTags \cup {"pointer"}

\* [pad: uint8, f: T, g: T [2], s: struct of one byte]
Codec_Struct(type) ==
    Make_Struct(<<A_Decl("pad", "uint8", None, None),
                  A_Decl("f", type, None, None),
                  A_Decl("g", type, Some(2), None),
                  A_Decl("s", "struct-value", None, Some(Inner_Byte))>>, 4)

\* the extremes of an integer type, as the REBI64 that holds them
IsSigned(type) == type \in {"int8", "int16", "int32", "int64"}

MaxOf(type) ==
    IF IsSigned(type)
      THEN ZeroExtend(Fill(PrimWidth(type) - 1, 255) \o <<127>>)
      ELSE ZeroExtend(Fill(PrimWidth(type), 255))

MinOf(type) ==
    IF IsSigned(type)
      THEN SignExtend(Zeros(PrimWidth(type) - 1) \o <<128>>)
      ELSE I64(0)

CodecValues(type) ==
    {An_Integer(i) : i \in {MinOf(type), MaxOf(type), Succ64(MaxOf(type)),
                            Pred64(MinOf(type)), I64(1), Neg64(I64(1))}}
    \cup {A_Text, A_Struct_Value(Inner_Seven)}

No_Op == [op |-> "none", field |-> 0, n |-> 0, val |-> A_Text,
          err |-> None, out |-> None]

\* the element of cd_written for element n of field 2 (f) or 3 (g)
Slot(field, n) == IF field = 2 THEN 1 ELSE 2 + n

CodecIdle ==
    /\ cd_type = "uint8"
    /\ cd_stu = Codec_Struct("uint8")
    /\ cd_written = <<None, None, None>>
    /\ cd_last = No_Op

CodecStart ==
    /\ cd_type \in CodecTypes
    /\ cd_stu = Codec_Struct(cd_type)
    /\ cd_written = <<None, None, None>>
    /\ cd_last = No_Op

\* Set_Scalar_In_Struct(stu, field, n, val)
CD_Set ==
    \E field \in 2..4, n \in 0..1, val \in CodecValues(cd_type) :
      /\ n = 0 \/ Field_Is_C_Array(cd_stu.fields[field])
      /\ \E r \in Set_Scalar_In_Struct(cd_stu, cd_stu.fields[field], n, val) :
            /\ cd_stu' = [cd_stu EXCEPT !.bytes = r.mem]
            /\ cd_last' = [op |-> "set", field |-> field, n |-> n,
                           val |-> val, err |-> r.err, out |-> None]
            /\ cd_written' =
                  IF r.err = None /\ field < 4
                    THEN [cd_written EXCEPT ![Slot(field, n)] = Some(val.i)]
                    ELSE cd_written
      /\ UNCHANGED <<cd_type, notCodec>>

\* Get_Scalar_In_Struct(out, stu, field, n)
CD_Get ==
    \E field \in 2..4, n \in 0..1 :
      /\ n = 0 \/ Field_Is_C_Array(cd_stu.fields[field])
      /\ cd_last' = [op |-> "get", field |-> field, n |-> n, val |-> A_Text,
                     err |-> None,
                     out |-> Some(Get_Scalar_In_Struct(
                                      cd_stu, cd_stu.fields[field], n))]
      /\ UNCHANGED <<cd_type, cd_stu, cd_written, notCodec>>

NextCodec == CD_Set \/ CD_Get

-----------------------------------------------------------------------------
(* Comparing field lists                                                   *)

SameKeywords == {"uint8", "int16", "struct-value"}

SameIdle ==
    /\ sf_a = Make_Struct_Start
    /\ sf_b = Make_Struct_Start
    /\ sf_res = None

\* one more field is declared in the first or the second list
CMP_Declare ==
    \E first \in BOOLEAN, kw \in SameKeywords, dim \in Dimensions :
      LET decl == A_Decl("a", kw, dim,
                         IF kw = "struct-value" THEN Some(Inner_Byte) ELSE None)
      IN /\ Len(IF first THEN sf_a.fields ELSE sf_b.fields) < MaxSame
         /\ sf_a' = IF first THEN Process_Next_Field(sf_a, decl) ELSE sf_a
         /\ sf_b' = IF first THEN sf_b ELSE Process_Next_Field(sf_b, decl)
         /\ sf_res' = None
         /\ UNCHANGED notSame

\* Same_Fields(a, b) and Same_Fields(b, a)
CMP_Compare ==
    /\ \E ab \in Same_Fields(sf_a.fields, sf_b.fields),
          ba \in Same_Fields(sf_b.fields, sf_a.fields) :
          sf_res' = Some([ab |-> ab, ba |-> ba,
               definite |->
                   /\ Cardinality(Same_Fields(sf_a.fields, sf_b.fields)) = 1
                   /\ Cardinality(Same_Fields(sf_b.fields, sf_a.fields)) = 1])
    /\ UNCHANGED <<sf_a, sf_b, notSame>>

NextSame == CMP_Declare \/ CMP_Compare

-----------------------------------------------------------------------------
(* EQUAL_Q, Copy_Struct_Managed, MAKE_SIMILAR_STRUCT (t-struct.c)          *)

\* the copy has the schema of src, a BLOB! of the whole storage of src;
\* Init_Struct then sets its offset to 0
Make_Similar_Struct(src) ==
    [src EXCEPT !.is_blob = TRUE, !.len = 0, !.offset = 0,
                !.bytes = Peek_Bytes(src.bytes, 0, Struct_Storage_Len(src))]

\* the outcomes of EQUAL_Q on two accessible instances: "true", "false",
\* or "abort" where one of its assertions does not hold in a checked build
Equal_Q(a, b) ==
    IF a.fields_id # b.fields_id THEN {"false"}
    ELSE (IF Struct_Total_Size(a) # Struct_Total_Size(b)
             \/ "abort" \in Same_Fields(a.fields, b.fields)
            THEN {"abort"} ELSE {})
         \cup {IF Peek_Bytes(a.bytes, 0, Struct_Total_Size(a))
                  = Peek_Bytes(b.bytes, 0, Struct_Total_Size(a))
                 THEN "true" ELSE "false"}

Equal_Decls ==
    <<A_Decl("a", "uint8", None, None), A_Decl("b", "uint8", Some(2), None)>>

\* pairs of instances: one made similar to the other, two made from the
\* same definition, and two picked out of the struct fields of such
EqualPairs ==
    LET one == Make_Struct(Equal_Decls, 5)
        two == Make_Struct(Equal_Decls, 6)
        outer == Make_Struct(
                    <<A_Decl("p", "uint8", None, None),
                      A_Decl("s", "struct-value", None, Some(one))>>, 7)
    IN { <<one, Make_Similar_Struct(one)>>,
         <<one, two>>,
         <<Picked_Struct(outer, outer.fields[2], 0),
           Picked_Struct(Make_Similar_Struct(outer), outer.fields[2], 0)>> }

EqualIdle ==
    /\ eq_x = Inner_Byte
    /\ eq_y = Inner_Byte
    /\ eq_res = None

EqualStart ==
    /\ \E pair \in EqualPairs : eq_x = pair[1] /\ eq_y = pair[2]
    /\ eq_res = None

\* one byte of the storage of one of the two instances is changed
EQ_Poke ==
    \E first \in BOOLEAN, b \in {0, 1} :
      \E k \in 1..Len(IF first THEN eq_x.bytes ELSE eq_y.bytes) :
        /\ eq_x' = IF first THEN [eq_x EXCEPT !.bytes[k] = b] ELSE eq_x
        /\ eq_y' = IF first THEN eq_y ELSE [eq_y EXCEPT !.bytes[k] = b]
        /\ eq_res' = None
        /\ UNCHANGED notEqual

EQ_Compare ==
    /\ \E r \in Equal_Q(eq_x, eq_y) : eq_res' = Some(r)
    /\ UNCHANGED <<eq_x, eq_y, notEqual>>

NextEqual == EQ_Poke \/ EQ_Compare

-----------------------------------------------------------------------------
(* An instance on external memory: the generics of t-struct.c and          *)
(* DESTROY-STRUCT-STORAGE                                                  *)

\* Cell_Struct: "ok", or how it ends on destroyed external storage: its
\* failure path calls Struct_Data_Head, which asserts the length is not 0
Cell_Struct(stu, checked) ==
    IF ~Cell_Struct_Inaccessible(stu) THEN "ok"
    ELSE IF checked THEN "abort" ELSE "bad-memory"

A_Result(err, mem, touched, out) ==
    [err |-> err, mem |-> mem, touched |-> touched, out |-> out]

Refused(stu, err) == {A_Result(Some(err), stu.bytes, FALSE, <<>>)}

\* the bytes a value shows, for the record of an operation
Shown(val) ==
    IF val.kind = "struct"
      THEN Peek_Bytes(val.stu[1].bytes, val.stu[1].offset, val.stu[1].wide)
      ELSE val.i

RECURSIVE Shown_Elements(_, _, _)
Shown_Elements(stu, field, n) ==
    IF n >= Field_Dimension(field) THEN <<>>
    ELSE Shown(Get_Scalar_In_Struct(stu, field, n))
         \o Shown_Elements(stu, field, n + 1)

\* the fields whose name is the picker
Named(stu, picker) ==
    {k \in 1..Len(stu.fields) : stu.fields[k].name = picker}

\* TWEAK_P, handle_pick: the first field of that name, if any
Tweak_Pick(stu, picker, checked) ==
    IF picker = "#" THEN Refused(stu, "bad-picker")
    ELSE IF Cell_Struct(stu, checked) # "ok"
      THEN Refused(stu, Cell_Struct(stu, checked))
    ELSE IF Named(stu, picker) = {}
      THEN {A_Result(None, stu.bytes, FALSE, <<>>)}
    ELSE LET field == stu.fields[CHOOSE k \in Named(stu, picker) :
                                    \A j \in Named(stu, picker) : k <= j]
         IN {A_Result(None, stu.bytes, ~Field_Is_Struct(field),
                IF Field_Is_C_Array(field)
                  THEN Shown_Elements(stu, field, 0)
                  ELSE Shown(Get_Scalar_In_Struct(stu, field, 0)))}

\* the loop over the elements of a BLOCK! poked into an array field: it
\* stops at the first element that is refused
RECURSIVE Poke_Elements(_, _, _, _)
Poke_Elements(stu, field, items, n) ==
    IF n >= Field_Dimension(field)
      THEN {A_Result(None, stu.bytes, TRUE, <<>>)}
    ELSE UNION { IF r.err # None THEN {A_Result(r.err, r.mem, TRUE, <<>>)}
                 ELSE Poke_Elements([stu EXCEPT !.bytes = r.mem],
                                    field, items, n + 1)
                 : r \in Set_Scalar_In_Struct(stu, field, n,
                                              An_Integer(items[n + 1])) }

\* TWEAK_P, handle_poke, for a struct with at most one field of that name
Tweak_Poke(stu, picker, poke, checked) ==
    IF picker = "#" THEN Refused(stu, "bad-picker")
    ELSE IF Cell_Struct(stu, checked) # "ok"
      THEN Refused(stu, Cell_Struct(stu, checked))
    ELSE IF Named(stu, picker) = {}
      THEN {A_Result(None, stu.bytes, FALSE, <<>>)}
    ELSE LET field == stu.fields[CHOOSE k \in Named(stu, picker) : TRUE] IN
         IF ~Field_Is_C_Array(field)
           THEN {A_Result(r.err, r.mem, TRUE, <<>>) :
                   r \in Set_Scalar_In_Struct(stu, field, 0, poke)}
         ELSE IF poke.kind = "blob"
           THEN IF Field_Width(field) # 1 THEN Refused(stu, "blob-width")
                ELSE IF Field_Dimension(field) # Len(poke.items)
                  THEN Refused(stu, "blob-size")
                ELSE {A_Result(None,
                        Poke_Bytes(stu.bytes, stu.offset + Field_Offset(field),
                                   poke.items), TRUE, <<>>)}
         ELSE IF poke.kind # "block" THEN Refused(stu, "requires-block")
         ELSE IF Field_Dimension(field) # Len(poke.items)
           THEN Refused(stu, "dimension-mismatch")
         ELSE Poke_Elements(stu, field, poke.items, 0)

\* BYTES_OF, LENGTH_OF, ADDRESS_OF (as an offset from the storage's address)
Bytes_Of(stu, checked) ==
    IF Cell_Struct(stu, checked) # "ok"
      THEN Refused(stu, Cell_Struct(stu, checked))
      ELSE {A_Result(None, stu.bytes, TRUE,
                     Peek_Bytes(stu.bytes, stu.offset, Struct_Total_Size(stu)))}

Length_Of(stu, checked) ==
    IF Cell_Struct(stu, checked) # "ok"
      THEN Refused(stu, Cell_Struct(stu, checked))
      ELSE {A_Result(None, stu.bytes, FALSE, I64(Cell_Struct_Data_Size(stu)))}

Address_Of(stu, checked) ==
    IF Cell_Struct(stu, checked) # "ok"
      THEN Refused(stu, Cell_Struct(stu, checked))
      ELSE {A_Result(None, stu.bytes, FALSE, I64(stu.offset))}

\* EQUAL_Q on any two instances
Equal_Generic(a, b, checked) ==
    IF Cell_Struct(a, checked) # "ok" THEN Refused(a, Cell_Struct(a, checked))
    ELSE IF Cell_Struct(b, checked) # "ok"
      THEN Refused(a, Cell_Struct(b, checked))
    ELSE {A_Result(IF r = "abort" /\ checked THEN Some("abort") ELSE None,
                   a.bytes, a.fields_id = b.fields_id,
                   IF r = "true" THEN <<1>> ELSE <<0>>) :
             r \in IF checked THEN Equal_Q(a, b)
                   ELSE Equal_Q(a, b) \ {"abort"}}

\* CHANGE: the whole storage is overwritten from its head
Change_Struct(stu, arg, checked) ==
    IF arg.kind # "blob" THEN Refused(stu, "unexpected-type")
    ELSE IF Cell_Struct(stu, checked) # "ok"
      THEN Refused(stu, Cell_Struct(stu, checked))
    ELSE IF Len(arg.items) # Cell_Struct_Data_Size(stu)
      THEN Refused(stu, "bad-argument")
    ELSE {A_Result(None, Poke_Bytes(stu.bytes, 0, arg.items), TRUE, <<>>)}

\* MAKE-SIMILAR-STRUCT with an empty body
Make_Similar_Native(stu, checked) ==
    IF Cell_Struct(stu, checked) # "ok"
      THEN Refused(stu, Cell_Struct(stu, checked))
      ELSE {A_Result(None, stu.bytes, TRUE, Make_Similar_Struct(stu).bytes)}

\* [a: uint8, g: uint8 [2], s: struct of one byte] at an address given raw
Life_Struct ==
    [Make_Struct(<<A_Decl("a", "uint8", None, None),
                   A_Decl("g", "uint8", Some(2), None),
                   A_Decl("s", "struct-value", None, Some(Inner_Byte))>>, 8)
        EXCEPT !.is_blob = FALSE, !.len = 4, !.bytes = <<1, 2, 3, 4>>]

No_Life_Op == [op |-> "none", via |-> "whole", typed |-> TRUE, dead |-> FALSE,
               err |-> None, touched |-> FALSE, out |-> <<>>]

LifeIdle ==
    /\ lf_build = [checked |-> FALSE, module |-> "t-struct.c"]
    /\ lf_stu = Life_Struct
    /\ lf_frees = <<>>
    /\ lf_last = No_Life_Op

LifeStart ==
    /\ lf_build \in [checked : BOOLEAN, module : {"t-struct.c", "mod-ffi.c"}]
    /\ lf_stu = Life_Struct
    /\ lf_frees = <<>>
    /\ lf_last = No_Life_Op

\* the instance itself, or the STRUCT! picked out of its field `s`
Via(via) ==
    IF via = "view" THEN Picked_Struct(lf_stu, lf_stu.fields[3], 0) ELSE lf_stu

Vias == {"whole", "view"}

\* the effect of an operation that ended as one of `results`
Life_Apply(op, via, results) ==
    /\ \E r \in results :
          /\ lf_stu' = [lf_stu EXCEPT !.bytes = r.mem]
          /\ lf_last' = [op |-> op, via |-> via, dead |-> lf_stu.len = 0,
                         typed |-> r.err \notin {Some("bad-picker"),
                                                 Some("unexpected-type")},
                         err |-> r.err, touched |-> r.touched, out |-> r.out]
    /\ UNCHANGED <<lf_build, lf_frees, notLife>>

LifePickers == {"a", "g", "s", "zz", "#"}

LifePokes ==
    {An_Integer(I64(9)), An_Integer(I64(256)), A_Text, A_Blob(<<7, 7>>),
     A_Block(<<I64(5), I64(256)>>), A_Struct_Value(Inner_Seven)}

LF_Pick ==
    \E via \in Vias, picker \in LifePickers :
        Life_Apply("pick", via, Tweak_Pick(Via(via), picker, lf_build.checked))

LF_Poke ==
    \E via \in Vias, picker \in LifePickers, poke \in LifePokes :
        Life_Apply("poke", via,
                   Tweak_Poke(Via(via), picker, poke, lf_build.checked))

LF_Bytes_Of ==
    \E via \in Vias :
        Life_Apply("bytes-of", via, Bytes_Of(Via(via), lf_build.checked))

LF_Length_Of ==
    \E via \in Vias :
        Life_Apply("length-of", via, Length_Of(Via(via), lf_build.checked))

LF_Address_Of ==
    \E via \in Vias :
        Life_Apply("address-of", via, Address_Of(Via(via), lf_build.checked))

LF_Equal ==
    \E via \in Vias, other \in {"same", "owned"}, swap \in BOOLEAN :
        LET a == Via(via)
            b == IF other = "same" THEN Via(via) ELSE Inner_Byte
        IN Life_Apply("equal?", via,
               IF swap
                 THEN {[r EXCEPT !.mem = a.bytes] :
                          r \in Equal_Generic(b, a, lf_build.checked)}
                 ELSE Equal_Generic(a, b, lf_build.checked))

LF_Change ==
    \E via \in Vias, arg \in {A_Blob(<<8, 8, 8, 8>>), A_Blob(<<8>>), A_Text} :
        Life_Apply("change", via,
                   Change_Struct(Via(via), arg, lf_build.checked))

LF_Make_Similar ==
    \E via \in Vias :
        Life_Apply("make-similar-struct", via,
                   Make_Similar_Native(Via(via), lf_build.checked))

\* DESTROY-STRUCT-STORAGE of t-struct.c; free is absent or any ACTION!
LF_Destroy ==
    /\ lf_build.module = "t-struct.c"
    /\ \E via \in Vias, free \in {"none", "routine", "function"} :
          LET c == Cell_Struct(Via(via), lf_build.checked) IN
          /\ lf_last' = [op |-> "destroy", via |-> via, typed |-> TRUE,
                         dead |-> lf_stu.len = 0,
                         err |-> IF c # "ok" THEN Some(c) ELSE None,
                         touched |-> FALSE, out |-> <<>>]
          /\ lf_stu' = IF c # "ok" THEN lf_stu ELSE [lf_stu EXCEPT !.len = 0]
          /\ lf_frees' = IF c = "ok" /\ free # "none"
                           THEN Append(lf_frees, "raw-addr") ELSE lf_frees
    /\ UNCHANGED <<lf_build, notLife>>

\* DESTROY-STRUCT-STORAGE of mod-ffi.c; free must be a routine, which is
\* found out after the handle's length was set to 0
LF_Destroy_Mod ==
    /\ lf_build.module = "mod-ffi.c"
    /\ \E via \in Vias, free \in {"none", "routine", "function"} :
          LET c == Cell_Struct(Via(via), lf_build.checked) IN
          /\ lf_last' = [op |-> "destroy", via |-> via, typed |-> TRUE,
                         dead |-> lf_stu.len = 0,
                         err |-> IF c # "ok" THEN Some(c)
                                 ELSE IF free = "function"
                                   THEN Some("free-needs-routine")
                                 ELSE None,
                         touched |-> FALSE, out |-> <<>>]
          /\ lf_stu' = IF c # "ok" THEN lf_stu ELSE [lf_stu EXCEPT !.len = 0]
          /\ lf_frees' = IF c = "ok" /\ free = "routine"
                           THEN Append(lf_frees, "raw-addr") ELSE lf_frees
    /\ UNCHANGED <<lf_build, notLife>>

NextLife ==
    \/ LF_Pick \/ LF_Poke \/ LF_Bytes_Of \/ LF_Length_Of \/ LF_Address_Of
    \/ LF_Equal \/ LF_Change \/ LF_Make_Similar \/ LF_Destroy \/ LF_Destroy_Mod

-----------------------------------------------------------------------------
(* Trap_Make_Schema_From_Block and Trap_Cell_To_Ffi (t-routine.c)          *)
(*                                                                         *)
(* A schema is a field record: a WORD! schema has only its type, a BLOCK!  *)
(* schema is the field of a struct.  A SPACE schema (void) has type        *)
(* "void".                                                                 *)

Word_Schema(type) == A_Field("", type, None, None, 0, 0)

A_Type_Block(words) == A_Value("block", I64(0), None, words)

\* the schema made of a type block holding words; the loop over
\* syms_to_typesets ends at the first entry that is not the word, so that
\* every word is taken
Trap_Make_Schema_From_Block(block) ==
    IF Len(block.items) # 1
      THEN [err |-> Some("bad-value"), schema |-> Word_Schema("void")]
      ELSE [err |-> None, schema |-> Word_Schema(block.items[1])]

\* a store that is never padded
Tail_Offset(store, align) == Len(store)

\* Expand_And_Align_Core: the offset the next datum of that alignment gets
Aligned_Offset(store, align) ==
    Len(store) + ((align - (Len(store) % align)) % align)

\* the store with `bytes` appended at `offset`, the gap filled
Expanded(store, offset, bytes) ==
    store \o Zeros(offset - Len(store)) \o bytes

\* 0xDECAFBAD as an intptr_t
Decafbad == <<173, 251, 202, 222, 0, 0, 0, 0>>

\* the action's details are a routine's: its dispatcher is
\* Routine_Dispatcher, which every action Trap_Alloc_Ffi_Action_For_Spec
\* makes has
Is_Action_Routine(v) == v.items[1] \in {"library", "address", "callback"}

\* IDX_ROUTINE_CFUNC: the function or the thunk
Routine_C_Function(v) == v.i

\* where the bytes of a TEXT! or a BLOB! are
Series_Data_Pointer == I64(8192)

\* the result is [err, store, offset]; arg is <<>> for the return value's
\* space, <<value>> for an argument
Trap_Cell_To_Ffi(store, arg, schema, checked) ==
    LET fails(e) == [err |-> Some(e), store |-> store, offset |-> 0]
        appends(bytes) ==
            [err |-> None, offset |-> Aligned_Offset(store, Len(bytes)),
             store |-> Expanded(store, Aligned_Offset(store, Len(bytes)),
                                bytes)]
    IN
    IF Field_Is_Struct(schema)
      THEN LET offset == Aligned_Offset(store, SizeofPointer)
               grown == Expanded(store, offset, Zeros(Field_Width(schema)))
           IN IF arg = None
                THEN [err |-> None, store |-> grown, offset |-> offset]
              ELSE IF arg[1].kind # "struct"
                THEN [err |-> Some("arg-type"), store |-> grown,
                      offset |-> offset]
              ELSE IF Cell_Struct(arg[1].stu[1], checked) # "ok"
                THEN [err |-> Some(Cell_Struct(arg[1].stu[1], checked)),
                      store |-> grown, offset |-> offset]
              ELSE IF Struct_Storage_Len(arg[1].stu[1]) # Field_Width(schema)
                THEN [err |-> Some("arg-type"), store |-> grown,
                      offset |-> offset]
              ELSE [err |-> None, offset |-> offset,
                    store |-> Expanded(store, offset,
                                Peek_Bytes(arg[1].stu[1].bytes,
                                           arg[1].stu[1].offset,
                                           Field_Width(schema)))]
    ELSE IF schema.type \in IntTags
      THEN IF arg = None THEN appends(Zeros(PrimWidth(schema.type)))
           ELSE IF arg[1].kind = "integer"
             THEN appends(LowBytes(arg[1].i, PrimWidth(schema.type)))
           ELSE fails("arg-type")
    ELSE IF schema.type = "pointer"
      THEN IF arg = None THEN appends(Decafbad)
           ELSE IF arg[1].kind = "integer" THEN appends(arg[1].i)
           ELSE IF arg[1].kind \in {"text", "blob"}
             THEN appends(Series_Data_Pointer)
           ELSE IF arg[1].kind = "action"
             THEN IF ~Is_Action_Routine(arg[1])
                    THEN fails("only-callbacks")
                    ELSE appends(Routine_C_Function(arg[1]))
           ELSE fails("arg-type")
    ELSE IF schema.type = "rebval"
      THEN IF arg = None THEN appends(Decafbad)
           ELSE appends(Cell_Pointer(arg[1]))
    ELSE IF schema.type \in {"float", "double"}
      THEN IF arg = None THEN appends(Zeros(PrimWidth(schema.type)))
           ELSE fails("arg-type")
    ELSE fails(IF checked THEN "abort" ELSE "bad-value")

\* the bytes a datum of that schema takes
Schema_Width(schema) ==
    IF Field_Is_Struct(schema) THEN Field_Width(schema)
    ELSE PrimWidth(schema.type)

\* a struct-typed schema: the field whose subfields are the instance's
Struct_Schema(stu) ==
    A_Field("", "struct!",
            Some([fields_id |-> stu.fields_id, fields |-> stu.fields]),
            None, 0, Struct_Total_Size(stu))

\* the struct branch ends in Term_Binary_Len(store, ...) whether or not a
\* store was given
Store_Used_With_Dest(schema) == Field_Is_Struct(schema)

\* Trap_Cell_To_Ffi with a null `store` and the destination `dest`: the
\* result is [err, mem, null_store], mem being the memory at dest after
Trap_Cell_To_Ffi_Dest(dest, arg, schema, checked) ==
    LET c == Trap_Cell_To_Ffi(<<>>, arg, schema, checked) IN
    IF c.err # None
      THEN [err |-> c.err, mem |-> dest, null_store |-> FALSE]
    ELSE IF Field_Is_Struct(schema) /\ arg = None
      THEN [err |-> None, mem |-> dest, null_store |-> FALSE]
    ELSE [err |-> None, mem |-> Poke_Bytes(dest, 0, c.store),
          null_store |-> Store_Used_With_Dest(schema)]

-----------------------------------------------------------------------------
(* Routine_Dispatcher (t-routine.c)                                        *)

\* a library that is never found closed
Never_Closed(r, lib_open) == FALSE

\* the j-th pair read with the type block before the value
Block_First_Pair(stack, j) ==
    [arg |-> stack[2 * j], block |-> stack[2 * j - 1]]

\* whether the call is refused because the routine's library is closed
Library_Closed(r, lib_open) ==
    IF r.origin = "callback" \/ r.origin = "address" THEN FALSE
    ELSE ~lib_open

\* the value and the type block of the j-th variadic argument on the stack
Variadic_Pair(stack, j) == [arg |-> stack[2 * j - 1], block |-> stack[2 * j]]

An_Encoded(arg, block, type, offset) ==
    [arg |-> arg, block |-> block, type |-> type, offset |-> offset]

\* Routine_Arg_Schema: the schema of an argument declared with that type;
\* a struct argument is declared with Inner_Pair
Arg_Schema(type) ==
    IF type = "struct!" THEN Struct_Schema(Inner_Pair) ELSE Word_Schema(type)

\* gather_fixed_parameters: arguments i.. of the frame, on the state
\* [err, store, offsets, encoded]
RECURSIVE Gather_Fixed(_, _, _, _)
Gather_Fixed(st, r, args, i) ==
    IF i > Len(r.args) THEN st
    ELSE LET c == Trap_Cell_To_Ffi(st.store, Some(args[i]),
                                   Arg_Schema(r.args[i]), r.checked)
         IN IF c.err # None THEN [st EXCEPT !.err = c.err, !.store = c.store]
            ELSE Gather_Fixed(
                   [err |-> None, store |-> c.store,
                    offsets |-> Append(st.offsets, c.offset),
                    encoded |-> Append(st.encoded,
                        An_Encoded(args[i], None, r.args[i], c.offset))],
                   r, args, i + 1)

\* the loop over the variadic arguments; `ub` is how reading a value that
\* is no BLOCK! as a type block ends where nothing asserts it
RECURSIVE Gather_Variadic(_, _, _, _, _)
Gather_Variadic(st, r, stack, j, ub) ==
    IF 2 * j > Len(stack) THEN st
    ELSE LET pair == Variadic_Pair(stack, j) IN
         IF pair.block.kind # "block"
           THEN [st EXCEPT !.err = Some(IF r.checked THEN "abort" ELSE ub)]
         ELSE LET made == Trap_Make_Schema_From_Block(pair.block) IN
         IF made.err # None THEN [st EXCEPT !.err = made.err]
         ELSE LET c == Trap_Cell_To_Ffi(st.store, Some(pair.arg),
                                        made.schema, r.checked)
         IN IF c.err # None THEN [st EXCEPT !.err = c.err, !.store = c.store]
            ELSE Gather_Variadic(
                   [err |-> None, store |-> c.store,
                    offsets |-> Append(st.offsets, c.offset),
                    encoded |-> Append(st.encoded,
                        An_Encoded(pair.arg, Some(pair.block),
                                   made.schema.type, c.offset))],
                   r, stack, j + 1, ub)

RECURSIVE Seqs_Upto(_, _)
Seqs_Upto(S, n) ==
    IF n = 0 THEN {<<>>}
    ELSE Seqs_Upto(S, n - 1) \cup [1..n -> S]

Routines ==
    [origin : {"library", "address", "callback"},
     ret : {"void", "int32"},
     args : {<<>>, <<"uint8">>, <<"int16", "uint8">>, <<"uint8", "struct!">>},
     variadic : BOOLEAN,
     checked : BOOLEAN]

\* fixed arguments have passed the type check of the call: INTEGER!s
FixedValues == {An_Integer(I64(5)), An_Integer(I64(256))}

\* the parameter of a struct argument is unconstrained
StructValues == {A_Struct_Value(Pair_Filled), A_Struct_Value(Inner_Seven)}

Values_For(type) ==
    IF type = "struct!" THEN FixedValues \cup StructValues ELSE FixedValues

StreamEntries ==
    {An_Integer(I64(5)), An_Integer(I64(300)),
     A_Type_Block(<<"uint8">>), A_Type_Block(<<"int16">>)}

No_Input == [args |-> <<>>, feed |-> <<>>, taken |-> <<>>]

\* a call interface: whose it is ("routine" or "call"), how many of its
\* arguments are fixed, the types of all of them and of the result
A_Cif(owner, nfixed, types, ret) ==
    [owner |-> owner, nfixed |-> nfixed, types |-> types, ret |-> ret]

\* a routine that keeps no call interface
No_Cif_Slot(r) == None

\* build_cif_call_interface_if_not_variadic: what IDX_ROUTINE_CIF holds
Routine_Cif_Slot(r) ==
    IF r.variadic THEN None
    ELSE Some(A_Cif("routine", Len(r.args), r.args, r.ret))

\* build_cif_call_interface_if_not_variadic: IDX_ROUTINE_ARG_FFTYPES
Routine_Fftypes_Slot(r) ==
    IF r.variadic THEN "unreadable"
    ELSE IF Len(r.args) = 0 THEN "space" ELSE "handle"

\* a pointer computed while the store still had no bytes
Pointer_At_Start(store, off) == [grown |-> 0, off |-> off]

\* Binary_At(store, off): good for as long as the store keeps the size it
\* had grown to when the pointer was taken
Pointer_To(store, off) == [grown |-> Len(store), off |-> off]

\* the frees of a call in which the descriptor array goes first
Frees_Types_First(r, num_args) == <<"args_fftypes", "cif">>

\* the frees after the native call has returned
Frees_After_Call(r, num_args) ==
    (IF num_args # 0 THEN <<"arg_offsets">> ELSE <<>>)
    \o <<"store">>
    \o (IF r.variadic THEN <<"cif", "args_fftypes">> ELSE <<>>)

Call_Reset ==
    /\ rc_pc = "idle"
    /\ rc_in = No_Input
    /\ rc_stack = <<>>
    /\ rc_store = None
    /\ rc_offsets = None
    /\ rc_encoded = <<>>
    /\ rc_native = None
    /\ rc_err = None
    /\ rc_ret = None
    /\ rc_cif = None
    /\ rc_fftypes = None
    /\ rc_ptrs = None
    /\ rc_freed = <<>>

CallIdle ==
    /\ rc_routine = [origin |-> "address", ret |-> "void", args |-> <<>>,
                     variadic |-> FALSE, checked |-> FALSE]
    /\ rc_lib_open = TRUE
    /\ rc_rcif = Routine_Cif_Slot(rc_routine)
    /\ rc_rfftypes = Routine_Fftypes_Slot(rc_routine)
    /\ Call_Reset

\* a routine as MAKE-ROUTINE, MAKE-ROUTINE-RAW or WRAP-CALLBACK left it; with
\* assertions on, WRAP-CALLBACK does not get past Routine_Call_Interface for
\* a variadic spec
CallStart ==
    /\ rc_routine \in Routines
    /\ ~(rc_routine.origin = "callback" /\ rc_routine.variadic
           /\ rc_routine.checked)
    /\ rc_lib_open = TRUE
    /\ rc_rcif = Routine_Cif_Slot(rc_routine)
    /\ rc_rfftypes = Routine_Fftypes_Slot(rc_routine)
    /\ Call_Reset

\* the library is closed, or opened again, between calls
LIB_Toggle ==
    /\ rc_pc = "idle"
    /\ rc_routine.origin = "library"
    /\ rc_lib_open' = ~rc_lib_open
    /\ UNCHANGED <<rc_routine, rc_pc, rc_in, rc_stack, rc_store, rc_offsets,
                   rc_encoded, rc_native, rc_err, rc_slots, rc_scratch,
                   notCall>>

\* the routine is called: the library is tested first of all
RD_Enter ==
    /\ rc_pc = "idle"
    /\ \E args \in [1..Len(rc_routine.args) -> FixedValues \cup StructValues],
          feed \in IF rc_routine.variadic
                     THEN Seqs_Upto(StreamEntries, MaxStream) ELSE {<<>>} :
          /\ \A k \in 1..Len(args) : args[k] \in Values_For(rc_routine.args[k])
          /\ rc_in' = [args |-> args, feed |-> feed, taken |-> <<>>]
    /\ IF Library_Closed(rc_routine, rc_lib_open)
         THEN rc_pc' = "failed" /\ rc_err' = Some("library-closed")
         ELSE /\ rc_pc' = IF rc_routine.variadic THEN "count" ELSE "store"
              /\ rc_err' = None
    /\ UNCHANGED <<rc_routine, rc_lib_open, rc_stack, rc_store, rc_offsets,
                   rc_encoded, rc_native, rc_slots, rc_scratch, notCall>>

\* count_variadic_arguments: the feed is taken onto the stack to its end
RD_Count_Variadic ==
    /\ rc_pc = "count"
    /\ rc_stack' = rc_in.feed
    /\ rc_in' = [rc_in EXCEPT !.feed = <<>>, !.taken = rc_in.feed]
    /\ IF Len(rc_in.feed) % 2 # 0
         THEN rc_pc' = "failed" /\ rc_err' = Some("must-alternate")
         ELSE rc_pc' = "store" /\ rc_err' = None
    /\ UNCHANGED <<rc_routine, rc_lib_open, rc_store, rc_offsets, rc_encoded,
                   rc_native, rc_slots, rc_scratch, notCall>>

\* make_backing_store: the store, the return value's space, arg_offsets
RD_Make_Backing_Store ==
    /\ rc_pc = "store"
    /\ LET c == IF rc_routine.ret = "void"
                  THEN [err |-> None, store |-> <<>>, offset |-> 0]
                  ELSE Trap_Cell_To_Ffi(<<>>, None,
                           Word_Schema(rc_routine.ret), rc_routine.checked)
       IN /\ rc_store' = Some(c.store)
          /\ rc_err' = c.err
          /\ rc_pc' = IF c.err # None THEN "failed" ELSE "gather"
          /\ rc_ret' = IF c.err # None \/ rc_routine.ret = "void"
                         THEN None ELSE Some(c.offset)
          /\ rc_offsets' =
               IF c.err # None
                    \/ Len(rc_routine.args) + Len(rc_stack) \div 2 = 0
                 THEN None ELSE Some(<<>>)
    /\ UNCHANGED <<rc_routine, rc_lib_open, rc_in, rc_stack, rc_encoded,
                   rc_native, rc_slots, rc_cif, rc_fftypes, rc_ptrs, rc_freed,
                   notCall>>

A_Gather(store, offsets, encoded) ==
    [err |-> None, store |-> store, offsets |-> offsets, encoded |-> encoded]

\* what a gathering loop leaves, and where the dispatcher goes then
Gathered(st, next) ==
    /\ rc_store' = Some(st.store)
    /\ rc_offsets' = IF rc_offsets = None THEN None ELSE Some(st.offsets)
    /\ rc_encoded' = st.encoded
    /\ rc_err' = st.err
    /\ rc_pc' = IF st.err # None THEN "failed" ELSE next

\* gather_fixed_parameters
RD_Gather_Fixed ==
    /\ rc_pc = "gather"
    /\ Gathered(Gather_Fixed(A_Gather(rc_store[1], <<>>, <<>>),
                             rc_routine, rc_in.args, 1), "cif")
    /\ UNCHANGED <<rc_routine, rc_lib_open, rc_in, rc_stack, rc_native,
                   rc_slots, rc_scratch, notCall>>

\* the types args_fftypes holds once these arguments are encoded
Fftypes_Of(encoded) == [k \in 1..Len(encoded) |-> encoded[k].type]

\* create_cif_call_interface: the routine's own CIF, or for a variadic
\* routine args_fftypes allocated, the variadic arguments encoded, the
\* stack dropped, a CIF allocated and prepared
RD_Create_Cif ==
    /\ rc_pc = "cif"
    /\ IF ~rc_routine.variadic
         THEN /\ rc_pc' = "pointers"
              /\ rc_cif' = rc_rcif
              /\ UNCHANGED <<rc_store, rc_offsets, rc_encoded, rc_err,
                             rc_stack, rc_fftypes, rc_freed>>
         ELSE \E ub \in {"crash", "bad-value"}, prepared \in BOOLEAN :
                LET st == Gather_Variadic(
                              A_Gather(rc_store[1],
                                  IF rc_offsets = None THEN <<>>
                                  ELSE rc_offsets[1], rc_encoded),
                              rc_routine, rc_stack, 1, ub)
                    types == Fftypes_Of(st.encoded)
                IN IF st.err # None
                     THEN /\ Gathered(st, "pointers")
                          /\ rc_stack' = rc_stack
                          /\ rc_fftypes' = Some(types)
                          /\ UNCHANGED <<rc_cif, rc_freed>>
                   ELSE IF ~prepared
                     THEN /\ Gathered([st EXCEPT !.err = Some("prep-cif")],
                                      "pointers")
                          /\ rc_stack' = <<>>
                          /\ rc_cif' = None
                          /\ rc_fftypes' = None
                          /\ rc_freed' = <<"cif", "args_fftypes">>
                     ELSE /\ Gathered(st, "pointers")
                          /\ rc_stack' = <<>>
                          /\ rc_cif' = Some(A_Cif("call",
                                 Len(rc_routine.args), types, rc_routine.ret))
                          /\ rc_fftypes' = Some(types)
                          /\ UNCHANGED rc_freed
    /\ UNCHANGED <<rc_routine, rc_lib_open, rc_in, rc_native, rc_slots,
                   rc_ret, rc_ptrs, notCall>>

\* change_arg_offsets_into_pointers
RD_Pointers ==
    /\ rc_pc = "pointers"
    /\ rc_pc' = "call"
    /\ rc_ptrs' = Some(
          [ret |-> IF rc_ret = None THEN None
                   ELSE Some(Pointer_To(rc_store[1], rc_ret[1])),
           args |-> IF rc_offsets = None THEN <<>>
                    ELSE [k \in 1..Len(rc_offsets[1]) |->
                            Pointer_To(rc_store[1], rc_offsets[1][k])]])
    /\ UNCHANGED <<rc_routine, rc_lib_open, rc_in, rc_stack, rc_store,
                   rc_offsets, rc_encoded, rc_native, rc_err, rc_slots,
                   rc_ret, rc_cif, rc_fftypes, rc_freed, notCall>>

\* make_actual_ffi_call, ffi_call: the native function gets the bytes each
\* argument pointer leads to
RD_Call ==
    /\ rc_pc = "call"
    /\ rc_native' = Some([k \in 1..Len(rc_ptrs[1].args) |->
                            Peek_Bytes(rc_store[1], rc_ptrs[1].args[k].off,
                                       Schema_Width(
                                           Arg_Schema(rc_cif[1].types[k])))])
    /\ rc_pc' = "free"
    /\ UNCHANGED <<rc_routine, rc_lib_open, rc_in, rc_stack, rc_store,
                   rc_offsets, rc_encoded, rc_err, rc_slots, rc_scratch,
                   notCall>>

\* make_actual_ffi_call, after the result is decoded: arg_offsets, the
\* store and what a variadic call allocated are freed
RD_Free ==
    /\ rc_pc = "free"
    /\ rc_store' = None
    /\ rc_offsets' = None
    /\ rc_cif' = IF rc_routine.variadic THEN None ELSE rc_cif
    /\ rc_fftypes' = None
    /\ rc_freed' = Frees_After_Call(rc_routine, Len(rc_ptrs[1].args))
    /\ rc_pc' = "done"
    /\ UNCHANGED <<rc_routine, rc_lib_open, rc_in, rc_stack, rc_encoded,
                   rc_native, rc_err, rc_slots, rc_ret, rc_ptrs, notCall>>

\* the level of the call is dropped
RD_Return ==
    /\ rc_pc \in {"done", "failed"}
    /\ rc_pc' = "idle"
    /\ rc_in' = No_Input
    /\ rc_stack' = <<>>
    /\ rc_store' = None
    /\ rc_offsets' = None
    /\ rc_encoded' = <<>>
    /\ rc_native' = None
    /\ rc_err' = None
    /\ rc_ret' = None
    /\ rc_cif' = None
    /\ rc_fftypes' = None
    /\ rc_ptrs' = None
    /\ rc_freed' = <<>>
    /\ UNCHANGED <<rc_routine, rc_lib_open, rc_slots, notCall>>

NextCall ==
    \/ LIB_Toggle \/ RD_Enter \/ RD_Count_Variadic \/ RD_Make_Backing_Store
    \/ RD_Gather_Fixed \/ RD_Create_Cif \/ RD_Pointers \/ RD_Call \/ RD_Free
    \/ RD_Return

-----------------------------------------------------------------------------
(* callback_dispatcher (t-routine.c)                                       *)

\* Ffi_To_Cell for the integer types, pointers and values: the C value
\* widened to an INTEGER!, or a copy of the cell pointed to
Ffi_To_Cell(type, bytes) ==
    IF type = "rebval" THEN Cell_At(bytes)
    ELSE An_Integer(IF IsSigned(type) THEN SignExtend(bytes)
                    ELSE ZeroExtend(bytes))

\* a dispatcher that goes on to finished_rebol_call whatever the action did
Always_Finished(run) == "finished"

\* where callback_dispatcher is after the evaluation: a throw, an abrupt
\* failure and a raised error all end in panic
After_Evaluation(run) ==
    IF run = "value" THEN "finished" ELSE "aborted"

Callbacks ==
    [args : {<<>>, <<"uint8">>, <<"int16", "uint8">>},
     ret : {"void", "int32", "uint8", "struct!"},
     checked : BOOLEAN]

\* Routine_Return_Schema_Unless_Void: a struct return is Inner_Pair's schema
Return_Schema(r) ==
    IF r.ret = "struct!" THEN Struct_Schema(Inner_Pair)
    ELSE Word_Schema(r.ret)

\* bytes of the caller's memory after the return slot
RetGuard == 2

\* the caller's memory at `ret`: the slot, then memory that is not the slot's
Return_Slot(r) == Fill(Schema_Width(Return_Schema(r)) + RetGuard, 170)

\* what native code may pass for an argument of a type
NativeBytes(type) ==
    IF PrimWidth(type) = 1 THEN {<<5>>, <<255>>}
    ELSE {<<1, 0>>, <<0, 128>>}

\* what the action may give back
CallbackResults ==
    {An_Integer(I64(5)), An_Integer(I64(300)), A_Text,
     A_Struct_Value(Inner_Pair), A_Struct_Value(Inner_Byte)}

Callback_Reset ==
    /\ cb_pc = "idle"
    /\ cb_args = <<>>
    /\ cb_code = <<>>
    /\ cb_run = "none"
    /\ cb_result = None
    /\ cb_ret = None

CallbackIdle ==
    /\ cb_routine = [args |-> <<>>, ret |-> "void", checked |-> FALSE]
    /\ Callback_Reset

CallbackStart ==
    /\ cb_routine \in Callbacks
    /\ Callback_Reset

\* build_array_that_represents_call: native code has called the thunk
CB_Enter ==
    /\ cb_pc = "idle"
    /\ \E args \in [1..Len(cb_routine.args) -> {<<5>>, <<255>>, <<1, 0>>,
                                                 <<0, 128>>}] :
          /\ \A k \in 1..Len(args) :
                args[k] \in NativeBytes(cb_routine.args[k])
          /\ cb_args' = args
          /\ cb_code' = [k \in 1..Len(args) |->
                            Ffi_To_Cell(cb_routine.args[k], args[k])]
    /\ cb_pc' = "running"
    /\ UNCHANGED <<cb_routine, cb_run, cb_result, cb_ret, notCallback>>

\* the array is evaluated inside the rescue scope
CB_Run ==
    /\ cb_pc = "running"
    /\ \E run \in {"value", "throw", "abrupt", "raised"} :
          /\ cb_run' = run
          /\ cb_pc' = After_Evaluation(run)
          /\ IF run = "value"
               THEN \E v \in CallbackResults : cb_result' = Some(v)
               ELSE cb_result' = None
    /\ UNCHANGED <<cb_routine, cb_args, cb_code, cb_ret, notCallback>>

\* finished_rebol_call: the result is written through `ret`, and the
\* dispatcher returns to the native caller unless the encoding fails.
\* Term_Binary_Len on the null store either stops the process or goes
\* unnoticed.
CB_Finish ==
    /\ cb_pc = "finished"
    /\ IF cb_routine.ret = "void"
         THEN cb_pc' = "returned" /\ cb_ret' = cb_ret
         ELSE LET c == Trap_Cell_To_Ffi_Dest(Return_Slot(cb_routine),
                           cb_result, Return_Schema(cb_routine),
                           cb_routine.checked)
              IN IF c.err # None
                   THEN cb_pc' = "unwound" /\ cb_ret' = cb_ret
                   ELSE /\ cb_ret' = Some([mem |-> c.mem,
                                           null_store |-> c.null_store])
                        /\ \E stopped \in IF c.null_store THEN BOOLEAN
                                           ELSE {FALSE} :
                              cb_pc' = IF stopped THEN "crashed"
                                       ELSE "returned"
    /\ UNCHANGED <<cb_routine, cb_args, cb_code, cb_run, cb_result,
                   notCallback>>

\* native code, or the interpreter after a failure, goes on to another call
CB_Again ==
    /\ cb_pc \in {"returned", "unwound"}
    /\ cb_pc' = "idle"
    /\ cb_args' = <<>>
    /\ cb_code' = <<>>
    /\ cb_run' = "none"
    /\ cb_result' = None
    /\ cb_ret' = None
    /\ UNCHANGED <<cb_routine, notCallback>>

NextCallback == CB_Enter \/ CB_Run \/ CB_Finish \/ CB_Again

-----------------------------------------------------------------------------
(* One value, one schema: Trap_Cell_To_Ffi and Ffi_To_Cell (t-routine.c),  *)
(* Set_Scalar_In_Struct and Get_Scalar_In_Struct (t-struct.c)              *)

A_Target(type, inner, checked) ==
    [type |-> type, inner |-> inner, checked |-> checked]

EncodeTargets ==
    {A_Target(t, None, c) : t \in {"uint8", "pointer", "rebval"},
                            c \in BOOLEAN}
    \cup {A_Target("struct!", Some(stu), c) :
             stu \in {Inner_Byte, Inner_Pair}, c \in BOOLEAN}

\* the schema Trap_Make_Schema_From_Block makes of the target's type block
Target_Schema(target) ==
    IF target.inner # None THEN Struct_Schema(target.inner[1])
    ELSE Word_Schema(target.type)

\* an instance whose one field `f` has the target's type
Target_Struct(target) ==
    Make_Struct(<<A_Decl("f",
                         IF target.inner # None THEN "struct-value"
                         ELSE target.type,
                         None, target.inner)>>, 7)

\* the store an argument is appended to: one byte is in it already
Store_Before == <<170>>

No_Decoded == [arg |-> None, field |-> None]

\* the read of a cell at an address that holds no cell stopped the process
Crashed == A_Value("crash", I64(0), None, <<>>)

EncodeIdle ==
    /\ en_target = A_Target("void", None, FALSE)
    /\ en_val = A_Text
    /\ en_arg = None
    /\ en_field = None
    /\ en_back = No_Decoded

EncodeStart ==
    /\ en_target \in EncodeTargets
    /\ en_val \in {Frame_Cells[k] : k \in 1..Len(Frame_Cells)}
    /\ en_arg = None
    /\ en_field = None
    /\ en_back = No_Decoded

\* the value is an argument of a call: Trap_Cell_To_Ffi with a store
EN_Encode_Arg ==
    /\ en_arg = None
    /\ en_arg' = Some(Trap_Cell_To_Ffi(Store_Before, Some(en_val),
                                       Target_Schema(en_target),
                                       en_target.checked))
    /\ UNCHANGED <<en_target, en_val, en_field, en_back, notEncode>>

\* the native side hands the datum back: Ffi_To_Cell on the bytes encoded
EN_Decode_Arg ==
    /\ en_arg # None
    /\ en_arg[1].err = None
    /\ en_target.inner = None
    /\ en_back.arg = None
    /\ en_back' = [en_back EXCEPT !.arg =
                     Some(Ffi_To_Cell(en_target.type,
                              Peek_Bytes(en_arg[1].store, en_arg[1].offset,
                                         PrimWidth(en_target.type))))]
    /\ UNCHANGED <<en_target, en_val, en_arg, en_field, notEncode>>

\* the value is poked into the field: Set_Scalar_In_Struct
EN_Set_Field ==
    /\ en_field = None
    /\ LET stu == Target_Struct(en_target) IN
       \E r \in Set_Scalar_In_Struct(stu, stu.fields[1], 0, en_val) :
          en_field' = Some(r)
    /\ UNCHANGED <<en_target, en_val, en_arg, en_back, notEncode>>

\* the field is picked: Get_Scalar_In_Struct.  For a value field the cell
\* is copied from the field's own address, past the field's end: what the
\* bytes there make of it, or the end of the process
EN_Get_Field ==
    /\ en_field # None
    /\ en_field[1].err = None
    /\ en_back.field = None
    /\ LET stu == [Target_Struct(en_target) EXCEPT !.bytes = en_field[1].mem]
           got == Get_Scalar_In_Struct(stu, stu.fields[1], 0)
       IN \E out \in {got} \cup (IF en_target.type = "rebval"
                                   THEN {Crashed} ELSE {}) :
             en_back' = [en_back EXCEPT !.field = Some(out)]
    /\ UNCHANGED <<en_target, en_val, en_arg, en_field, notEncode>>

NextEncode == EN_Encode_Arg \/ EN_Decode_Arg \/ EN_Set_Field \/ EN_Get_Field

-----------------------------------------------------------------------------
(* Trap_Alloc_Ffi_Action_For_Spec and the natives that call it             *)
(* (t-routine.c)                                                           *)

\* the items of an ffi-spec: a text, `return:` with its type block, another
\* set-word, an argument word with its type block, `...`, anything else
A_Spec_Item(kind, type) == [kind |-> kind, type |-> type]

\* a spec analysis that never takes the routine for variadic
Not_Yet_Variadic(st) == FALSE

\* `is_variadic` as the analysis of the spec has it so far
Seen_Variadic(st) == st.variadic

An_Analysis(err, ret, args, variadic) ==
    [err |-> err, ret |-> ret, args |-> args, variadic |-> variadic]

\* build_paramlist_on_data_stack: one item of the spec; ret is "void" while
\* ret_schema_or_space is a space
Analyse_Item(st, item) ==
    CASE item.kind = "text" -> st
      [] item.kind = "setword" -> [st EXCEPT !.err = Some("bad-value")]
      [] item.kind = "return" ->
            IF st.ret # "void"
              THEN [st EXCEPT !.err = Some("return-already-specified")]
              ELSE LET made == Trap_Make_Schema_From_Block(
                                   A_Type_Block(<<item.type>>))
                   IN IF made.err # None THEN [st EXCEPT !.err = made.err]
                      ELSE [st EXCEPT !.ret = made.schema.type]
      [] item.kind = "ellipsis" ->
            IF Seen_Variadic(st)
              THEN [st EXCEPT !.err = Some("duplicate-variadic")]
              ELSE [st EXCEPT !.variadic = TRUE]
      [] item.kind = "arg" ->
            IF Seen_Variadic(st)
              THEN [st EXCEPT !.err = Some("variadic-must-be-final")]
              ELSE LET made == Trap_Make_Schema_From_Block(
                                   A_Type_Block(<<item.type>>))
                   IN IF made.err # None THEN [st EXCEPT !.err = made.err]
                      ELSE [st EXCEPT
                              !.args = Append(st.args, made.schema.type)]
      [] OTHER -> [st EXCEPT !.err = Some("bad-value")]

RECURSIVE Analyse_Spec(_, _, _)
Analyse_Spec(st, spec, i) ==
    IF i > Len(spec) \/ st.err # None THEN st
    ELSE Analyse_Spec(Analyse_Item(st, spec[i]), spec, i + 1)

\* Get_Ffi_Type_For_Symbol gives a type: the word is one of the catalog
Has_Ffi_Type(type) == type \in PrimTags

An_Alloc(err, routine) == [err |-> err, routine |-> routine]

\* the details of a routine as Trap_Alloc_Ffi_Action_For_Spec fills them
Routine_Details(st) ==
    LET r == [ret |-> st.ret, args |-> st.args, variadic |-> st.variadic]
    IN [ret |-> st.ret, args |-> st.args, variadic |-> st.variadic,
        cif |-> Routine_Cif_Slot(r), fftypes |-> Routine_Fftypes_Slot(r)]

\* Trap_Alloc_Ffi_Action_For_Spec; `prepared` is whether ffi_prep_cif gives
\* FFI_OK, `ub` what a build without assertions does with a null ffi_type
Trap_Alloc_Ffi_Action_For_Spec(spec, checked, prepared, ub) ==
    LET st == Analyse_Spec(An_Analysis(None, "void", <<>>, FALSE), spec, 1)
    IN IF st.err # None THEN An_Alloc(st.err, None)
       ELSE IF st.variadic THEN An_Alloc(None, Some(Routine_Details(st)))
       ELSE IF \/ \E k \in 1..Len(st.args) : ~Has_Ffi_Type(st.args[k])
               \/ st.ret # "void" /\ ~Has_Ffi_Type(st.ret)
         THEN An_Alloc(Some(IF checked THEN "abort" ELSE ub), None)
       ELSE IF ~prepared THEN An_Alloc(Some("prep-cif"), None)
       ELSE An_Alloc(None, Some(Routine_Details(st)))

An_Outcome(err, routine, origin, closure) ==
    [err |-> err, routine |-> routine, origin |-> origin,
     closure |-> closure]

\* MAKE-ROUTINE (found: PICK gave the function) and MAKE-ROUTINE-RAW (found:
\* the pointer is not null)
Make_Routine(native, found, alloc) ==
    IF ~found
      THEN An_Outcome(Some("no-function"), None, "none", FALSE)
    ELSE IF alloc.err # None
      THEN An_Outcome(alloc.err, None, "none", FALSE)
    ELSE An_Outcome(None, alloc.routine,
                    IF native = "make-routine" THEN "library" ELSE "address",
                    FALSE)

\* WRAP-CALLBACK; `closed` is what ffi_closure_alloc and
\* ffi_prep_closure_loc make of it: "ok", "no-closure", "prep-closure"; `ub`
\* what ffi_prep_closure_loc does with the pointer read from an unreadable
\* IDX_ROUTINE_CIF: "crash", "prep-closure", "ok"
Wrap_Callback(alloc, checked, closed, ub) ==
    IF alloc.err # None
      THEN An_Outcome(alloc.err, None, "none", FALSE)
    ELSE IF closed = "no-closure"
      THEN An_Outcome(Some("no-closure"), None, "none", FALSE)
    ELSE IF alloc.routine[1].variadic /\ checked
      THEN An_Outcome(Some("abort"), None, "none", FALSE)
    ELSE IF alloc.routine[1].variadic /\ ub # "ok"
      THEN An_Outcome(Some(ub), None, "none", FALSE)
    ELSE IF ~alloc.routine[1].variadic /\ closed # "ok"
      THEN An_Outcome(Some(closed), None, "none", FALSE)
    ELSE An_Outcome(None, alloc.routine, "callback", TRUE)

SpecTypes == {"int32", "uint8", "void", "bogus"}

SpecItems ==
    {A_Spec_Item("text", "void"), A_Spec_Item("setword", "void"),
     A_Spec_Item("ellipsis", "void"), A_Spec_Item("integer", "void")}
    \cup {A_Spec_Item(k, t) : k \in {"return", "arg"}, t \in SpecTypes}

No_Outcome == An_Outcome(None, None, "none", FALSE)

AllocIdle ==
    /\ al_checked = FALSE
    /\ al_native = "none"
    /\ al_spec = <<>>
    /\ al_out = No_Outcome

AllocStart ==
    /\ al_checked \in BOOLEAN
    /\ al_native = "none"
    /\ al_spec = <<>>
    /\ al_out = No_Outcome

\* the block that will be the ffi-spec gets one more item
AL_Spec_Item ==
    /\ al_native = "none"
    /\ Len(al_spec) < MaxSpec
    /\ \E item \in SpecItems : al_spec' = Append(al_spec, item)
    /\ UNCHANGED <<al_checked, al_native, al_out, notAlloc>>

AL_Make_Routine ==
    /\ al_native = "none"
    /\ \E found \in BOOLEAN, prepared \in BOOLEAN,
          ub \in {"crash", "prep-cif"} :
          al_out' = Make_Routine("make-routine", found,
                        Trap_Alloc_Ffi_Action_For_Spec(
                            al_spec, al_checked, prepared, ub))
    /\ al_native' = "make-routine"
    /\ UNCHANGED <<al_checked, al_spec, notAlloc>>

AL_Make_Routine_Raw ==
    /\ al_native = "none"
    /\ \E found \in BOOLEAN, prepared \in BOOLEAN,
          ub \in {"crash", "prep-cif"} :
          al_out' = Make_Routine("make-routine-raw", found,
                        Trap_Alloc_Ffi_Action_For_Spec(
                            al_spec, al_checked, prepared, ub))
    /\ al_native' = "make-routine-raw"
    /\ UNCHANGED <<al_checked, al_spec, notAlloc>>

AL_Wrap_Callback ==
    /\ al_native = "none"
    /\ \E prepared \in BOOLEAN, ub \in {"crash", "prep-cif"},
          closed \in {"ok", "no-closure", "prep-closure"},
          ub2 \in {"crash", "prep-closure", "ok"} :
          al_out' = Wrap_Callback(
                        Trap_Alloc_Ffi_Action_For_Spec(
                            al_spec, al_checked, prepared, ub),
                        al_checked, closed, ub2)
    /\ al_native' = "wrap-callback"
    /\ UNCHANGED <<al_checked, al_spec, notAlloc>>

NextAlloc ==
    AL_Spec_Item \/ AL_Make_Routine \/ AL_Make_Routine_Raw \/ AL_Wrap_Callback

LayoutIdle ==
    /\ ms_pc = "off"
    /\ ms_inner = None
    /\ ms_st = Make_Struct_Start
    /\ ms_made = None
    /\ ms_fftype = None

LayoutStart ==
    /\ ms_pc = "start"
    /\ ms_inner \in LayoutInners
    /\ ms_st = Make_Struct_Start
    /\ ms_made = None
    /\ ms_fftype = None

\* Make_Struct's entry: an empty definition is refused
MS_Enter ==
    /\ ms_pc = "start"
    /\ \E empty \in BOOLEAN :
          ms_pc' = IF empty THEN "failed" ELSE "fields"
    /\ UNCHANGED <<ms_inner, ms_st, ms_made, ms_fftype, notLayout>>

\* process_next_field on one more declaration
MS_Field ==
    /\ ms_pc = "fields"
    /\ Len(ms_st.fields) < MaxFields
    /\ \E name \in LayoutNames, dim \in Dimensions,
          kw \in LayoutKeywords \cup
                 (IF ms_inner = None THEN {} ELSE {"struct-value"}) :
          LET st == Process_Next_Field(ms_st,
                        A_Decl(name, kw, dim,
                               IF kw = "struct-value" THEN ms_inner ELSE None))
          IN /\ ms_st' = st
             /\ ms_pc' = IF st.err # None THEN "failed" ELSE "fields"
    /\ UNCHANGED <<ms_inner, ms_made, ms_fftype, notLayout>>

\* the level is at its end: pop_fields_from_stack (with its call of
\* Prepare_Field_For_Ffi), finalize_struct.  Stores past the end of the
\* `elements` array either go unnoticed or stop the process.
MS_Finish ==
    /\ ms_pc = "fields"
    /\ Len(ms_st.fields) >= 1
    /\ LET fftype == Prepare_Field_For_Ffi(ms_st.fields) IN
       \E stopped \in IF Elements_Overrun(fftype) THEN BOOLEAN ELSE {FALSE} :
          IF stopped
            THEN /\ ms_pc' = "crashed"
                 /\ UNCHANGED <<ms_made, ms_fftype>>
            ELSE /\ ms_pc' = "done"
                 /\ ms_made' = Some(Finalize_Struct(ms_st, 9))
                 /\ ms_fftype' = Some(fftype)
    /\ UNCHANGED <<ms_inner, ms_st, notLayout>>

NextLayout == MS_Enter \/ MS_Field \/ MS_Finish

InitLayout ==
    LayoutStart /\ CodecIdle /\ SameIdle /\ EqualIdle /\ LifeIdle /\ CallIdle /\ CallbackIdle /\ AllocIdle /\ EncodeIdle

SpecLayout == InitLayout /\ [][NextLayout]_vars

RECURSIVE Declared_Size_Sum(_, _)
Declared_Size_Sum(fields, n) ==
    IF n = 0 THEN 0
    ELSE Declared_Size_Sum(fields, n - 1)
         + fields[n].wide * (IF fields[n].is_array THEN fields[n].dimension
                             ELSE 1)

\* C1: every schema Make_Struct built has as total size the sum of its
\* fields' width x dimension (dimension 1 for a scalar), and every field's
\* offset is the sum of the sizes of the fields declared before it.
C1_Layout ==
    ms_made # None =>
        LET s == ms_made[1] IN
        /\ s.wide = Declared_Size_Sum(s.fields, Len(s.fields))
        /\ \A i \in 1..Len(s.fields) :
              s.fields[i].offset = Declared_Size_Sum(s.fields, i - 1)

\* a built schema of three fields: a scalar, an array of 2, a nested struct
C1_Witness ==
    /\ ms_made # None
    /\ Len(ms_made[1].fields) = 3
    /\ \E i, j, k \in 1..3 :
          /\ ms_made[1].fields[i].is_array
          /\ ms_made[1].fields[i].dimension = 2
          /\ ms_made[1].fields[i].offset > 0
          /\ ms_made[1].fields[j].is_struct
          /\ ~ms_made[1].fields[k].is_array

\* every entry is a primitive's descriptor
All_Primitive(elements) ==
    \A i \in 1..Len(elements) : elements[i].type \in PrimTags

\* C20: the descriptor array Prepare_Field_For_Ffi builds for a struct
\* schema has exactly Total_Struct_Dimensionality entries (one per scalar
\* element, nested structs counted recursively), each entry a primitive's
\* descriptor, and the null sentinel at the index equal to that count.
C20_Flattened ==
    ms_fftype # None =>
        LET fftype == ms_fftype[1]
            count == Total_Struct_Dimensionality(ms_made[1].fields)
        IN /\ Len(fftype.elements) = count
           /\ All_Primitive(fftype.elements)
           /\ fftype.sentinel = count

InitCodec ==
    CodecStart /\ LayoutIdle /\ SameIdle /\ EqualIdle /\ LifeIdle /\ CallIdle /\ CallbackIdle /\ AllocIdle /\ EncodeIdle

SpecCodec == InitCodec /\ [][NextCodec]_vars

C2Types == {"int8", "uint8", "int16", "uint16", "int32", "uint32", "int64"}

\* C2: for the integer types up to int64, reading the scalar field after
\* its least or greatest value was written gives back exactly that value.
C2_RoundTrip ==
    (/\ cd_last.op = "get"
     /\ cd_last.field = 2
     /\ cd_type \in C2Types
     /\ cd_written[1] # None
     /\ cd_written[1][1] \in {MinOf(cd_type), MaxOf(cd_type)})
    => cd_last.out = Some(An_Integer(cd_written[1][1]))

NarrowTypes == {"int8", "uint8", "int16", "uint16", "int32", "uint32"}

\* C3: writing one more than the greatest or one less than the least value
\* of an 8, 16 or 32 bit integer type, or -1 into a uint64, fails with the
\* overflow error.
C3_Overflow ==
    (/\ cd_last.op = "set"
     /\ cd_last.field \in {2, 3}
     /\ cd_last.val.kind = "integer"
     /\ \/ /\ cd_type \in NarrowTypes
           /\ cd_last.val.i \in {Succ64(MaxOf(cd_type)), Pred64(MinOf(cd_type))}
        \/ /\ cd_type = "uint64"
           /\ cd_last.val.i = Neg64(I64(1)))
    => cd_last.err = Some("overflow")

\* 4294967296 was written into a uint32 field and refused
C3_Witness ==
    /\ cd_last.op = "set"
    /\ cd_type = "uint32"
    /\ cd_last.val = An_Integer(<<0, 0, 0, 0, 1, 0, 0, 0>>)
    /\ cd_last.err = Some("overflow")

InitSame ==
    SameIdle /\ LayoutIdle /\ CodecIdle /\ EqualIdle /\ LifeIdle /\ CallIdle /\ CallbackIdle /\ AllocIdle /\ EncodeIdle

SpecSame == InitSame /\ [][NextSame]_vars

\* C5: Same_Fields gives the same answer whichever of two field lists comes
\* first, and answers true for a list compared with itself.
C5_Symmetric ==
    (sf_res # None /\ sf_res[1].definite) =>
        /\ sf_res[1].ab = sf_res[1].ba
        /\ sf_a.fields = sf_b.fields => sf_res[1].ab = "true"

InitEqual ==
    EqualStart /\ LayoutIdle /\ CodecIdle /\ SameIdle /\ LifeIdle /\ CallIdle /\ CallbackIdle /\ AllocIdle /\ EncodeIdle

SpecEqual == InitEqual /\ [][NextEqual]_vars

\* the bytes from an instance's offset over the width of its schema
Own_Region(stu) == Peek_Bytes(stu.bytes, stu.offset, stu.wide)

\* C6: two instances with field-by-field equal schemas compare equal when
\* their own bytes are identical, and unequal when any byte differs.
C6_Equality ==
    (eq_res # None /\ Same_Fields(eq_x.fields, eq_y.fields) = {"true"}) =>
        eq_res[1] = (IF Own_Region(eq_x) = Own_Region(eq_y)
                       THEN "true" ELSE "false")

InitLife ==
    LifeStart /\ LayoutIdle /\ CodecIdle /\ SameIdle /\ EqualIdle /\ CallIdle /\ CallbackIdle /\ AllocIdle /\ EncodeIdle

SpecLife == InitLife /\ [][NextLife]_vars

LifeAccesses ==
    {"pick", "poke", "bytes-of", "length-of", "address-of", "equal?",
     "change", "make-similar-struct"}

\* C7: once the external storage was destroyed, every access through the
\* instance (with arguments of the types the operation takes) is refused
\* with the bad-memory error and touches no byte.
C7_Refused ==
    (lf_last.op \in LifeAccesses /\ lf_last.dead /\ lf_last.typed) =>
        lf_last.err = Some("bad-memory") /\ ~lf_last.touched

\* C8: a DESTROY-STRUCT-STORAGE of storage already destroyed is refused as
\* given an already destroyed handle, and free is called at most once.
C8_OneShot ==
    /\ Len(lf_frees) <= 1
    /\ (lf_last.op = "destroy" /\ lf_last.dead) =>
           lf_last.err = Some("already-destroyed")

InitCall ==
    CallStart /\ LayoutIdle /\ CodecIdle /\ SameIdle /\ EqualIdle /\ LifeIdle /\ CallbackIdle /\ AllocIdle /\ EncodeIdle

SpecCall == InitCall /\ [][NextCall]_vars

Outside_Range(type, i) ==
    Greater64(i, MaxOf(type)) \/ Less64(i, MinOf(type))

\* C4: the native function is never called with an integer argument, fixed
\* or variadic, whose value is outside the range of its declared type.
C4_Range_Checked ==
    rc_native # None =>
        \A k \in 1..Len(rc_encoded) :
            (rc_encoded[k].arg.kind = "integer"
               /\ rc_encoded[k].type \in NarrowTypes)
            => ~Outside_Range(rc_encoded[k].type, rc_encoded[k].arg.i)

\* C9: a call of a routine whose library is closed fails at once: nothing
\* is taken from the VARARGS!, no store and no arg_offsets are made, no
\* argument is encoded and the native function is not called.
C9_Closed_Library ==
    (rc_pc # "idle" /\ rc_routine.origin = "library" /\ ~rc_lib_open) =>
        /\ rc_pc = "failed"
        /\ rc_err = Some("library-closed")
        /\ rc_in.taken = <<>>
        /\ rc_stack = <<>>
        /\ rc_store = None
        /\ rc_offsets = None
        /\ rc_encoded = <<>>
        /\ rc_native = None

\* a variadic routine with two fixed arguments and a feed of four entries
\* was called with its library closed
C9_Witness ==
    /\ rc_pc = "failed"
    /\ rc_routine.origin = "library"
    /\ ~rc_lib_open
    /\ rc_routine.variadic
    /\ Len(rc_in.args) = 2
    /\ Len(rc_in.feed) = 4

\* C10: a variadic call whose feed gave an odd number of entries fails and
\* the native function is not called; when the native function is called
\* after 2k entries, the k arguments after the fixed ones were encoded from
\* the entries in pairs (value, type block), in the order of the feed.
C10_Pairs ==
    /\ (rc_routine.variadic /\ Len(rc_in.taken) % 2 # 0) =>
          rc_pc = "failed" /\ rc_native = None
    /\ (rc_routine.variadic /\ rc_native # None) =>
          LET fixed == Len(rc_routine.args)
              k == Len(rc_in.taken) \div 2
          IN /\ Len(rc_in.taken) = 2 * k
             /\ Len(rc_encoded) = fixed + k
             /\ Len(rc_native[1]) = fixed + k
             /\ \A i \in 1..fixed : rc_encoded[i].arg = rc_in.args[i]
             /\ \A j \in 1..k :
                   /\ rc_encoded[fixed + j].arg = rc_in.taken[2 * j - 1]
                   /\ rc_encoded[fixed + j].block = Some(rc_in.taken[2 * j])

\* the native function was called after one fixed argument and a feed of
\* two different pairs
C10_Witness ==
    /\ rc_routine.variadic
    /\ rc_native # None
    /\ Len(rc_routine.args) = 1
    /\ Len(rc_in.taken) = 4
    /\ rc_in.taken[1] # rc_in.taken[3]
    /\ rc_in.taken[2] # rc_in.taken[4]

\* a variadic call failed on a feed of three entries
C10_Odd_Witness ==
    /\ rc_routine.variadic
    /\ Len(rc_in.taken) = 3
    /\ rc_pc = "failed"

\* the dispatcher failed after make_backing_store had made the store
Failed_With_Scratch ==
    /\ rc_pc = "failed"
    /\ rc_err \notin {Some("library-closed"), Some("must-alternate")}

\* C11: when the dispatcher returns a failure after the backing store was
\* made, the store, arg_offsets, args_fftypes and the call's CIF have all
\* been released.
C11_Scratch_Released ==
    Failed_With_Scratch =>
        /\ rc_store = None
        /\ rc_offsets = None
        /\ rc_fftypes = None
        /\ rc_cif = None

\* the number of arguments of the call: fixed ones and variadic pairs
Num_Args == Len(rc_routine.args) + Len(rc_in.taken) \div 2

\* every pointer of the call leads into the store as it is now
Pointers_Good ==
    /\ rc_store # None
    /\ rc_ptrs # None
    /\ rc_ptrs[1].ret # None =>
          rc_ptrs[1].ret[1] = Pointer_To(rc_store[1], rc_ret[1])
    /\ (rc_routine.ret # "void") => rc_ptrs[1].ret # None
    /\ Len(rc_ptrs[1].args) = Num_Args
    /\ \A k \in 1..Len(rc_ptrs[1].args) :
          /\ rc_ptrs[1].args[k].grown = Len(rc_store[1])
          /\ rc_ptrs[1].args[k].off = rc_encoded[k].offset
          /\ rc_ptrs[1].args[k].off
               + Schema_Width(Arg_Schema(rc_encoded[k].type))
               <= Len(rc_store[1])

\* C12: the offsets become pointers only when the return space and every
\* fixed and variadic argument are in the store; from then until the native
\* call has returned the store is not grown and not freed, so that every
\* pointer still leads to its argument.
C12_Late_Pointers ==
    [][ /\ (rc_ptrs = None /\ rc_ptrs' # None) =>
              /\ Len(rc_encoded) = Num_Args
              /\ rc_store' = rc_store
              /\ Pointers_Good'
        /\ rc_pc = "call" =>
              /\ Pointers_Good
              /\ rc_store' = rc_store
              /\ rc_native' # None
        /\ (rc_store # None /\ rc_store' # rc_store /\ rc_pc' # "idle") =>
              \/ rc_ptrs' = None
              \/ rc_native # None /\ rc_store' = None ]_vars

\* a variadic call with a return value and two pairs is about to call the
\* native function through its pointers
C12_Witness ==
    /\ rc_pc = "call"
    /\ rc_routine.variadic
    /\ rc_routine.ret = "int32"
    /\ Len(rc_routine.args) = 2
    /\ Len(rc_in.taken) = 4
    /\ Pointers_Good

\* C13: a routine is not variadic exactly when its details hold a CIF, with
\* the descriptor array when it has a fixed argument; a variadic routine
\* holds neither; a call of a routine that is not variadic uses the CIF of
\* the details and allocates none.
C13_Cached_Cif ==
    /\ ~rc_routine.variadic <=> rc_rcif # None
    /\ rc_rfftypes = "handle" <=>
          (~rc_routine.variadic /\ Len(rc_routine.args) > 0)
    /\ rc_rfftypes = "space" <=>
          (~rc_routine.variadic /\ Len(rc_routine.args) = 0)
    /\ rc_routine.variadic => rc_rfftypes = "unreadable"
    /\ rc_rcif # None =>
          /\ rc_rcif[1].owner = "routine"
          /\ rc_rcif[1].types = rc_routine.args
          /\ rc_rcif[1].nfixed = Len(rc_routine.args)
          /\ rc_rcif[1].ret = rc_routine.ret
    /\ ~rc_routine.variadic =>
          /\ rc_fftypes = None
          /\ rc_cif \in {None, rc_rcif}
          /\ rc_pc \in {"pointers", "call", "free", "done"} => rc_cif = rc_rcif
          /\ "cif" \notin {rc_freed[k] : k \in 1..Len(rc_freed)}

\* the native function was called through the CIF of the details of a
\* routine of two arguments
C13_Witness ==
    /\ ~rc_routine.variadic
    /\ Len(rc_routine.args) = 2
    /\ rc_native # None
    /\ rc_cif = rc_rcif
    /\ rc_rfftypes = "handle"

\* where a thing stands among the frees of the call, 0 if it was not freed
RECURSIVE Freed_At(_, _)
Freed_At(what, k) ==
    IF k = 0 THEN 0
    ELSE IF rc_freed[k] = what THEN k ELSE Freed_At(what, k - 1)

\* C14: in a variadic call that completes, the call's CIF and args_fftypes
\* are there while the native function is called and are freed only after
\* it has returned, the CIF before args_fftypes; they never get into the
\* details of the routine, and are gone when the dispatcher returns.
C14_Transient_Cif ==
    rc_routine.variadic =>
        /\ rc_rcif = None /\ rc_rfftypes = "unreadable"
        /\ rc_pc \in {"call", "free"} =>
              /\ rc_cif # None /\ rc_cif[1].owner = "call"
              /\ rc_fftypes = Some(rc_cif[1].types)
              /\ Len(rc_cif[1].types) = Num_Args
              /\ rc_freed = <<>>
        /\ (rc_pc # "failed" /\ rc_freed # <<>>) => rc_native # None
        /\ rc_pc = "done" =>
              /\ rc_cif = None /\ rc_fftypes = None
              /\ Freed_At("cif", Len(rc_freed)) > 0
              /\ Freed_At("cif", Len(rc_freed))
                   < Freed_At("args_fftypes", Len(rc_freed))

\* a variadic call of two pairs has completed
C14_Witness ==
    /\ rc_routine.variadic
    /\ rc_pc = "done"
    /\ rc_native # None
    /\ Len(rc_in.taken) = 4

InitCallback ==
    CallbackStart /\ LayoutIdle /\ CodecIdle /\ SameIdle /\ EqualIdle
    /\ LifeIdle /\ CallIdle /\ AllocIdle /\ EncodeIdle

SpecCallback == InitCallback /\ [][NextCallback]_vars

\* C15: when the action throws, fails abruptly or gives a raised error
\* inside callback_dispatcher, the dispatcher panics: nothing is written
\* through `ret` and the native caller is not returned to.
C15_Panic ==
    /\ cb_run \in {"throw", "abrupt", "raised"} =>
          /\ cb_pc = "aborted"
          /\ cb_ret = None
    /\ cb_pc = "aborted" => cb_run \in {"throw", "abrupt", "raised"}
    /\ cb_ret # None => cb_run = "value" /\ cb_pc \in {"returned", "crashed"}

\* the action of a callback of two arguments threw
C15_Witness ==
    /\ cb_pc = "aborted"
    /\ cb_run = "throw"
    /\ Len(cb_code) = 2
    /\ cb_routine.ret = "int32"

InitAlloc ==
    AllocStart /\ LayoutIdle /\ CodecIdle /\ SameIdle /\ EqualIdle
    /\ LifeIdle /\ CallIdle /\ CallbackIdle /\ EncodeIdle

SpecAlloc == InitAlloc /\ [][NextAlloc]_vars

\* the native refused the spec with an error and produced nothing
Spec_Refused ==
    /\ al_out.err # None
    /\ al_out.err \notin {Some("abort"), Some("crash")}
    /\ al_out.routine = None
    /\ ~al_out.closure

Has_Kind(kind) == \E i \in 1..Len(al_spec) : al_spec[i].kind = kind

\* C16: WRAP-CALLBACK given a spec with the variadic marker fails and
\* prepares no closure, and no callback is variadic.
C16_No_Variadic_Callback ==
    /\ (al_native = "wrap-callback" /\ Has_Kind("ellipsis")) => Spec_Refused
    /\ al_out.origin = "callback" => ~al_out.routine[1].variadic

\* C17: a spec with an argument after the variadic marker, or with a second
\* variadic marker, is refused with an error and gives no routine.
C17_Variadic_Last ==
    (al_native # "none"
       /\ \E i, j \in 1..Len(al_spec) :
             /\ i < j
             /\ al_spec[i].kind = "ellipsis"
             /\ al_spec[j].kind \in {"arg", "ellipsis"})
    => Spec_Refused

\* specs of two markers, and of an argument after the marker, were refused
\* by the test made for each
C17_Witness ==
    /\ al_native = "make-routine"
    /\ Len(al_spec) = 3
    /\ al_spec[1].kind = "arg"
    /\ al_spec[2].kind = "ellipsis"
    /\ al_spec[3].kind = "arg"
    /\ al_out.err = Some("variadic-must-be-final")

\* a spec of two markers was refused
C17_Duplicate_Witness ==
    /\ al_native = "wrap-callback"
    /\ al_spec = <<A_Spec_Item("ellipsis", "void"),
                   A_Spec_Item("ellipsis", "void")>>
    /\ al_out.err = Some("duplicate-variadic")

\* C18: a spec with more than one `return:` is refused with an error and
\* gives no routine, whatever the return types are.
C18_One_Return ==
    (al_native # "none"
       /\ \E i, j \in 1..Len(al_spec) :
             i < j /\ al_spec[i].kind = "return" /\ al_spec[j].kind = "return")
    => Spec_Refused

\* C19: a spec naming a type that is not of the catalog, for an argument or
\* for the return value, is refused with an error and gives no routine.
C19_Known_Types ==
    (al_native # "none"
       /\ \E i \in 1..Len(al_spec) :
             /\ al_spec[i].kind \in {"arg", "return"}
             /\ al_spec[i].type \notin PrimTags \cup {"void"})
    => Spec_Refused

\* C28: Prepare_Field_For_Ffi never stores past the slots it allocated: the
\* entries written plus the null sentinel number at most
\* Total_Struct_Dimensionality + 1, for every schema Make_Struct builds,
\* arrays of nested structs included.
C28_Within_Capacity ==
    /\ ms_pc # "crashed"
    /\ ms_fftype # None =>
          Len(ms_fftype[1].elements) + 1 <= ms_fftype[1].allocated

\* C23: callback_dispatcher ends in one of two ways only, a normal return
\* to the native caller or the end of the process; when the action's result
\* cannot be encoded per the return schema, no jump is taken out of the
\* dispatcher across the native caller.
C23_Return_Or_Abort == cb_pc # "unwound"

\* C29: with a destination and no store (the call callback_dispatcher
\* makes), Trap_Cell_To_Ffi writes the return schema's width in bytes at
\* the destination, nothing after them, and does not use a store; for
\* primitive and for struct return schemas.
C29_Dest_Only ==
    cb_ret # None =>
        LET width == Schema_Width(Return_Schema(cb_routine)) IN
        /\ cb_pc # "crashed"
        /\ ~cb_ret[1].null_store
        /\ Len(cb_ret[1].mem) = width + RetGuard
        /\ \A k \in 1..width : cb_ret[1].mem[k] # 170
        /\ \A k \in (width + 1)..(width + RetGuard) : cb_ret[1].mem[k] = 170

\* C26: no routine Trap_Alloc_Ffi_Action_For_Spec produces has the void
\* marker among its argument schemas: a spec declaring an argument of type
\* void is refused with an error.
C26_No_Void_Argument ==
    /\ al_out.routine # None =>
          \A k \in 1..Len(al_out.routine[1].args) :
             al_out.routine[1].args[k] # "void"
    /\ (al_native # "none"
          /\ \E i \in 1..Len(al_spec) :
                al_spec[i].kind = "arg" /\ al_spec[i].type = "void")
       => Spec_Refused

\* C30: a poke that fails leaves the instance's memory byte for byte as it
\* was, also when a block assigned to an array field is refused at one of
\* its elements.
C30_Failed_Poke_Writes_Nothing ==
    [][(lf_last'.op = "poke" /\ lf_last'.err # None)
          => lf_stu'.bytes = lf_stu.bytes]_vars

InitEncode ==
    EncodeStart /\ LayoutIdle /\ CodecIdle /\ SameIdle /\ EqualIdle
    /\ LifeIdle /\ CallIdle /\ CallbackIdle /\ AllocIdle

SpecEncode == InitEncode /\ [][NextEncode]_vars

\* two field lists of the same shape: as many fields, each with the same
\* type, dimension, offset and width, struct fields of the same shape in turn
RECURSIVE Same_Shape(_, _)
Same_Shape(a, b) ==
    /\ Len(a) = Len(b)
    /\ \A k \in 1..Len(a) :
          /\ a[k].is_struct = b[k].is_struct
          /\ a[k].type = b[k].type
          /\ a[k].is_array = b[k].is_array
          /\ a[k].dimension = b[k].dimension
          /\ a[k].offset = b[k].offset
          /\ a[k].wide = b[k].wide
          /\ a[k].is_struct =>
                Same_Shape(a[k].sub[1].fields, b[k].sub[1].fields)

Same_Layout(a, b) ==
    Struct_Total_Size(a) = Struct_Total_Size(b) /\ Same_Shape(a.fields, b.fields)

\* C21: a STRUCT! value is encoded for a struct schema only if its schema
\* has the size and, field by field, the shape of the target's; otherwise
\* the encoding is an error and none of its bytes are copied.  For an
\* argument of a call as for a write to a nested-struct field.
C21_Compatible_Structs ==
    (en_target.inner # None /\ en_val.kind = "struct") =>
        LET same == Same_Layout(en_target.inner[1], en_val.stu[1]) IN
        /\ en_arg # None =>
              /\ en_arg[1].err = None => same
              /\ en_arg[1].err # None =>
                    \A k \in 2..Len(en_arg[1].store) : en_arg[1].store[k] = 0
        /\ en_field # None =>
              /\ en_field[1].err = None => same
              /\ en_field[1].err # None =>
                    en_field[1].mem = Target_Struct(en_target).bytes

\* C22: an ACTION! is encoded for a pointer only if it is a callback (it
\* wraps a closure); a routine made of a library or of a raw address, or
\* any other action, is refused with an error.
C22_Callbacks_Only ==
    (en_target.type = "pointer" /\ en_val.kind = "action" /\ en_arg # None)
    => IF en_val.items[1] = "callback"
         THEN en_arg[1].err = None
         ELSE /\ en_arg[1].err # None
              /\ en_arg[1].store = Store_Before

\* C24: a value encoded for a value (rebval) schema is stored as a
\* reference of pointer width to it, and decoding gives that value back:
\* as an argument (Trap_Cell_To_Ffi, Ffi_To_Cell) and as a field
\* (Set_Scalar_In_Struct, Get_Scalar_In_Struct).
C24_Value_Round_Trip ==
    en_target.type = "rebval" =>
        /\ en_arg # None =>
              /\ en_arg[1].err = None
              /\ Peek_Bytes(en_arg[1].store, en_arg[1].offset, SizeofPointer)
                   = Cell_Pointer(en_val)
              /\ Len(en_arg[1].store) = en_arg[1].offset + SizeofPointer
        /\ en_back.arg # None => en_back.arg[1] = en_val
        /\ en_field # None =>
              /\ en_field[1].err = None
              /\ en_field[1].mem = Cell_Pointer(en_val)
        /\ en_back.field # None => en_back.field[1] = en_val

\* the regions of the store: [off, size, align] of the return slot (if any)
\* and of every argument encoded so far
Store_Regions ==
    (IF rc_ret # None
       THEN <<[off |-> rc_ret[1], align |-> 1,
               size |-> Schema_Width(Word_Schema(rc_routine.ret))]>>
       ELSE <<>>)
    \o [k \in 1..Len(rc_encoded) |->
          [off |-> rc_encoded[k].offset,
           size |-> Schema_Width(Arg_Schema(rc_encoded[k].type)),
           align |-> IF rc_encoded[k].type = "struct!" THEN SizeofPointer
                     ELSE PrimWidth(rc_encoded[k].type)]]

\* C25: in the store of one call the return slot is at offset 0, every
\* primitive argument is at a multiple of its width and every struct
\* argument at a multiple of the pointer size, the regions of the return
\* slot and of the arguments are pairwise disjoint, and each lies inside
\* the store.
C25_Store_Layout ==
    rc_store # None =>
        LET r == Store_Regions IN
        /\ rc_ret # None => rc_ret[1] = 0
        /\ \A k \in 1..Len(r) :
              /\ r[k].off % r[k].align = 0
              /\ r[k].off + r[k].size <= Len(rc_store[1])
              /\ r[k].off = 0 \/ r[k].off < Len(rc_store[1])
        /\ \A j, k \in 1..Len(r) :
              j < k => \/ r[j].off + r[j].size <= r[k].off
                       \/ r[k].off + r[k].size <= r[j].off

\* a call about to be made with a return slot, a struct argument placed
\* after padding and a variadic argument placed after padding behind it
C25_Witness ==
    /\ rc_pc = "call"
    /\ rc_ret # None
    /\ Len(rc_encoded) = 4
    /\ rc_encoded[2].type = "struct!"
    /\ rc_encoded[2].offset > rc_encoded[1].offset + 1
    /\ rc_encoded[3].type = "int16"
    /\ rc_encoded[3].offset > rc_encoded[2].offset + 5

\* C27: reading element n of a nested-struct field of an instance whose
\* base offset is B yields a struct value that shares the instance's storage
\* and whose base offset is B + the field's offset + n x the field's width,
\* so that what is read through it is the nested struct's own bytes.
C27_Nested_Offset ==
    (cd_last.op = "get" /\ Field_Is_Struct(cd_stu.fields[cd_last.field])) =>
        LET field == cd_stu.fields[cd_last.field]
            got == cd_last.out[1].stu[1]
            at == cd_stu.offset + Field_Offset(field)
                     + cd_last.n * Field_Width(field)
        IN /\ got.bytes = cd_stu.bytes
           /\ got.offset = at
           /\ Own_Region(got) = Peek_Bytes(cd_stu.bytes, at, Field_Width(field))

====
